---- MODULE Spec2Model ----
(***************************************************************************)
(* The PSA Crypto client API of TF-M                                       *)
(* (secure_fw/partitions/crypto/tfm_crypto_secure_api.c): every API        *)
(* function builds a request header (struct tfm_crypto_pack_iovec), an     *)
(* input and an output descriptor array, hands them to the channel         *)
(* (psa_call or the service's veneer) and unpacks the lengths the channel  *)
(* left in the output descriptors.                                         *)
(*                                                                         *)
(* An operation-state object (psa_cipher_operation_t, psa_hash_operation_t,*)
(* psa_mac_operation_t, psa_aead_operation_t,                              *)
(* psa_key_derivation_operation_t) is modelled by its handle field, the    *)
(* only field this layer reads or has written.  The header fields key_id,  *)
(* alg, step, capacity, ad_length and plaintext_length are copied verbatim *)
(* from the arguments and are not modelled.                                *)
(***************************************************************************)
EXTENDS Integers, Sequences, FiniteSets, TLC

VARIABLES
    build,       \* the build configuration: binding and module switches
    handle,      \* handle[o]: the handle field of operation object o
    served,      \* served[o]: the value the channel last left in o's handle
    ndispatch,   \* number of calls of the channel primitive made so far
    pc,          \* "idle" | "running" | "in_call" | "returned" | "fault" | "no_return"
    call,        \* the API call in progress or just returned (its frame)
    dispatched,  \* the channel calls made by that API call, as passed
    post,        \* out_vec of that API call after the channel returned
    ret,         \* the status the API call returned
    lenout,      \* the caller's *_length out-parameters written by the call
    status,      \* the status the channel returned to that API call
    service,     \* TRUE: the channel answers as the crypto service does
    live,        \* the handles the crypto service has allocated
    aborts,      \* aborts[o]: 1 after an abort that ended o's operation, 2 after an abort following it
    thread,      \* thread[t]: where thread of control t is, and its header
    conn,        \* the thread whose request the connection is handling
    run          \* one API call taken statement by statement

vars == <<build, handle, served, ndispatch, pc, call, dispatched, post, ret, lenout, status, service, live, aborts, thread, conn, run>>

(***************************************************************************)
(* Bounds of the model.                                                    *)
(***************************************************************************)
MaxLen == 1        \* buffer lengths and capacities range over 0..MaxLen
MaxHandle == 2     \* handle values range over 0..MaxHandle
MaxDispatch == 2   \* channel calls per behaviour
MaxServiceDispatch == 3   \* the same, with the crypto service behind the channel
MaxThreadCalls == 4   \* channel calls of the two threads of control together

(***************************************************************************)
(* Program constants.                                                      *)
(***************************************************************************)
PSA_MAX_IOVEC == 4
TFM_CRYPTO_MAX_NONCE_LENGTH == 16
SIZEOF_uint32_t == 4
SIZEOF_size_t == 4
SIZEOF_psa_key_id_t == 4
SIZEOF_psa_hash_operation_t == 4
SIZEOF_psa_key_attributes_t == 20
SIZEOF_tfm_crypto_pack_iovec == 56

NULL == "NULL"
PASS == "PASS"
VOID == "void"
NONE == "none"

PSA_SUCCESS == "PSA_SUCCESS"
PSA_ERROR_NOT_SUPPORTED == "PSA_ERROR_NOT_SUPPORTED"
PSA_ERROR_INVALID_ARGUMENT == "PSA_ERROR_INVALID_ARGUMENT"
PSA_ERROR_BAD_STATE == "PSA_ERROR_BAD_STATE"
PSA_ERROR_CONNECTION_REFUSED == "PSA_ERROR_CONNECTION_REFUSED"
PSA_ERROR_CONNECTION_BUSY == "PSA_ERROR_CONNECTION_BUSY"

Objs == {"opA", "opB"}
Lens == 0..MaxLen
Handles == 0..MaxHandle
NonceLens == {0, 1, TFM_CRYPTO_MAX_NONCE_LENGTH, TFM_CRYPTO_MAX_NONCE_LENGTH + 1}

Modules == {"KEY", "CIPHER", "HASH", "MAC", "AEAD", "ASYM_SIGN",
            "ASYM_ENCRYPT", "KEY_DERIVATION", "RNG"}

\* TFM_CRYPTO_<m>_MODULE_DISABLED is undefined, defined as 0 or defined as
\* non-zero; TFM_PSA_API is defined or not.  The module switches are set
\* alike in the builds explored.
MacroValues == {"undef", "zero", "nonzero"}
BuildConfigs ==
    { [psa_api |-> b, module_disabled |-> [m \in Modules |-> v]] :
        b \in BOOLEAN, v \in MacroValues }

\* "#ifdef M" against "#if (M != 0)"
ModuleDisabled(m, guard) ==
    IF guard = "ifdef" THEN build.module_disabled[m] # "undef"
    ELSE build.module_disabled[m] = "nonzero"

\* the statuses the channel (the service behind it) may return, when it
\* returns
ChannelStatus == {PSA_SUCCESS, PSA_ERROR_BAD_STATE,
                  PSA_ERROR_CONNECTION_REFUSED, PSA_ERROR_CONNECTION_BUSY}

(***************************************************************************)
(* Descriptors and the request header.                                     *)
(***************************************************************************)
Vec(base, len) == [base |-> base, len |-> len]

ZeroNonce == [i \in 1..TFM_CRYPTO_MAX_NONCE_LENGTH |-> 0]

\* struct tfm_crypto_pack_iovec iov = { .srv_id = sid, .op_handle = h }
Iov(sid, h) == [srv_id |-> sid, op_handle |-> h,
                nonce |-> ZeroNonce, nonce_length |-> 0]

\* mutant: .op_handle left out of the initialiser
OpHandle_unset(operation) == 0
\* .op_handle = operation->handle
OpHandle(operation) == handle[operation]

\* {.base = &iov, .len = sizeof(struct tfm_crypto_pack_iovec)}
HdrVec == Vec("&iov", SIZEOF_tfm_crypto_pack_iovec)

\* {.base = &(operation->handle), .len = sizeof(uint32_t)}
HandleVec == Vec("&(operation->handle)", SIZEOF_uint32_t)

\* ARRAY_SIZE(v)
ARRAY_SIZE(v) == Len(v)

\* the caller's buffer byte at index idx (C index)
CallerByte(idx) == idx + 1

\* mutant: the length is read from out_vec[0] whatever the index
LenFrom_index0(ptr, idx) == [ptr |-> ptr, zero |-> FALSE, idx |-> 0]
\* a write to a caller *_length out-parameter: "*ptr = out_vec[idx].len" (C
\* index) or "*ptr = 0"
LenFrom(ptr, idx) == [ptr |-> ptr, zero |-> FALSE, idx |-> idx]
LenZero(ptr) == [ptr |-> ptr, zero |-> TRUE, idx |-> 0]

NoCall == [fn |-> NONE]

\* two threads of control, each with an operation object of its own, and
\* the one connection TFM_CRYPTO_HANDLE
Threads == {"t1", "t2"}
Own(t) == IF t = "t1" THEN "opA" ELSE "opB"
FREE == "free"
ThreadIdle == [pc |-> "idle", op_handle |-> 0, hobj |-> NONE, input_length |-> 0, ret |-> NONE]

\* no API call in progress in the statement-by-statement course
RunIdle ==
    [pc |-> "idle", stepwise |-> FALSE, iov |-> NONE, idx |-> 0, iters |-> 0,
     inflight |-> 0, calls |-> 0]

(***************************************************************************)
(* The channel: psa_call(TFM_CRYPTO_HANDLE, PSA_IPC_CALL, in_vec, in_num,  *)
(* out_vec, out_num) or <service>_veneer(in_vec, in_num, out_vec, out_num).*)
(* The caller waits inside it.  It returns a status and leaves in each     *)
(* output descriptor handed to it the number of bytes written there, at    *)
(* most the capacity; descriptors not handed to it are untouched.  A       *)
(* fixed-size object (a handle, a key id, attributes) is written whole or  *)
(* not at all.  psa_call does not return when the call is invalid.         *)
(***************************************************************************)
FixedBases == {"&(operation->handle)", "target_operation", "key_id",
               "attributes", "capacity", "target_key_id"}

ChannelLen(v) ==
    IF v.base = NULL THEN {0}
    ELSE IF v.base \in FixedBases THEN {0, v.len}
    ELSE 0..v.len

RECURSIVE ChannelOut(_, _, _)
\* the out_vec arrays the channel may leave, given the first n were passed
ChannelOut(out_vec, n, i) ==
    IF i > Len(out_vec) THEN {<<>>}
    ELSE LET rest == ChannelOut(out_vec, n, i + 1)
             here == IF i <= n
                     THEN {Vec(out_vec[i].base, l) : l \in ChannelLen(out_vec[i])}
                     ELSE {out_vec[i]}
         IN  {<<h>> \o r : h \in here, r \in rest}

\* the descriptor through which the channel writes an object's handle
HandleBases == {"&(operation->handle)", "target_operation"}

HandleIdx(p) ==
    {i \in 1..p.out_num : p.out_vec[i].base \in HandleBases}

(***************************************************************************)
(* Unpacking: the writes "*ptr = out_vec[idx].len" (or "*ptr = 0") an API  *)
(* function performs after the channel returned.  A write through a null   *)
(* pointer is undefined behaviour: the call traps, or the write is lost.   *)
(***************************************************************************)
\* mutant: the length is taken from the first output descriptor
LenValue_first(w, out) == IF w.zero THEN 0 ELSE out[1].len
\* the value of "out_vec[idx].len" after the dispatch, or the constant 0
LenValue(w, out) == IF w.zero THEN 0 ELSE out[w.idx + 1].len

RECURSIVE Written(_, _, _)
Written(lens, out, stopAtNull) ==
    IF lens = <<>> THEN <<>>
    ELSE IF Head(lens).ptr = NULL
         THEN IF stopAtNull THEN <<>> ELSE Written(Tail(lens), out, stopAtNull)
         ELSE <<[ptr |-> Head(lens).ptr, val |-> LenValue(Head(lens), out),
                 copied |-> ~Head(lens).zero]>>
              \o Written(Tail(lens), out, stopAtNull)

HasNullWrite(lens) == \E i \in 1..Len(lens) : lens[i].ptr = NULL

UnpackOutcomes(lens, out) ==
    IF HasNullWrite(lens)
    THEN {[fault |-> TRUE,  lenout |-> Written(lens, out, TRUE)],
          [fault |-> FALSE, lenout |-> Written(lens, out, FALSE)]}
    ELSE {[fault |-> FALSE, lenout |-> Written(lens, out, FALSE)]}

(***************************************************************************)
(* The common course of an API function.  p is its frame:                  *)
(*   fn, module, guard   the function and its "#ifdef"/"#if" switch        *)
(*   args                the arguments                                     *)
(*   check               PASS, or the status of the local check that fails *)
(*   iov                 the header when the function dispatches or leaves *)
(*   in_vec, out_vec     the descriptor arrays as declared                 *)
(*   in_num, out_num     the counts handed to the channel                  *)
(*   hobj                the object whose handle an out descriptor names   *)
(*   lens                the *_length writes after the dispatch            *)
(*   void                TRUE for a function without a return value        *)
(***************************************************************************)
\* mutant: the lengths are zeroed before the function returns
LocalReturn_lengths_zeroed(p, local_status) ==
    /\ ret' = IF p.void THEN VOID ELSE local_status
    /\ pc' = "returned"
    /\ dispatched' = <<>>
    /\ post' = <<>>
    /\ lenout' = [i \in 1..Len(p.lens) |->
                     [ptr |-> p.lens[i].ptr, val |-> 0, copied |-> FALSE]]
    /\ status' = NONE
    /\ UNCHANGED <<handle, served, ndispatch, live, aborts>>
\* mutant: the operation objects are reset before the function returns
LocalReturn_resets_handle(p, local_status) ==
    /\ ret' = IF p.void THEN VOID ELSE local_status
    /\ pc' = "returned"
    /\ dispatched' = <<>>
    /\ post' = <<>>
    /\ lenout' = <<>>
    /\ status' = NONE
    /\ handle' = [o \in Objs |-> 0]
    /\ UNCHANGED <<served, ndispatch, live, aborts>>
LocalReturn(p, local_status) ==
    /\ ret' = IF p.void THEN VOID ELSE local_status
    /\ pc' = "returned"
    /\ dispatched' = <<>>
    /\ post' = <<>>
    /\ lenout' = <<>>
    /\ status' = NONE
    /\ UNCHANGED <<handle, served, ndispatch, live, aborts>>

(***************************************************************************)
(* The crypto service behind the channel, as the operation protocol        *)
(* describes it: a setup on a fresh object allocates a handle, a step      *)
(* needs a live handle and keeps it, finish and verify end the operation,  *)
(* abort ends it from any active state; any call but a setup on an object  *)
(* without an operation is answered with a state error and the operation   *)
(* is ended.  The handle descriptor, where the request has one, is written    *)
(* whole: 0 for an operation that ended.                                   *)
(***************************************************************************)
SetupFns ==
    {"psa_cipher_encrypt_setup", "psa_cipher_decrypt_setup", "psa_hash_setup",
     "psa_mac_sign_setup", "psa_mac_verify_setup", "psa_aead_encrypt_setup",
     "psa_aead_decrypt_setup", "psa_key_derivation_setup", "psa_hash_clone"}

AbortFns ==
    {"psa_cipher_abort", "psa_hash_abort", "psa_mac_abort", "psa_aead_abort",
     "psa_key_derivation_abort"}

EndFns ==
    {"psa_cipher_finish", "psa_hash_finish", "psa_hash_verify",
     "psa_mac_sign_finish", "psa_mac_verify_finish", "psa_aead_finish",
     "psa_aead_verify"}

\* the requests that carry an operation handle in the header
HandleFns ==
    {"psa_cipher_generate_iv", "psa_cipher_set_iv", "psa_cipher_update",
     "psa_hash_update", "psa_mac_update", "psa_aead_generate_nonce",
     "psa_aead_set_nonce", "psa_aead_set_lengths", "psa_aead_update_ad",
     "psa_aead_update", "psa_key_derivation_get_capacity",
     "psa_key_derivation_output_bytes", "psa_key_derivation_input_key",
     "psa_key_derivation_key_agreement", "psa_key_derivation_set_capacity",
     "psa_key_derivation_input_bytes", "psa_key_derivation_output_key"}
        \cup SetupFns \cup AbortFns \cup EndFns

FreeHandles == (1..MaxHandle) \ live

\* a setup finds the object fresh (psa_hash_clone: the source live) and a
\* handle free
SetupOk(p) ==
    /\ FreeHandles # {}
    /\ IF p.fn = "psa_hash_clone" THEN p.iov.op_handle \in live
       ELSE p.iov.op_handle = 0

\* the status of the service: a setup of a fresh object succeeds; any other
\* call, abort included, succeeds on an operation in progress and is rejected
\* with a state error when the object has none (Uninitialized or Terminal)
ServiceStatus(p) ==
    IF p.fn \notin HandleFns THEN ChannelStatus
    ELSE IF p.fn \in SetupFns
         THEN IF SetupOk(p) THEN {PSA_SUCCESS} ELSE {PSA_ERROR_BAD_STATE}
    ELSE IF p.iov.op_handle \in live THEN {PSA_SUCCESS}
    ELSE {PSA_ERROR_BAD_STATE}

\* the handle the service leaves for the object of the request
ServiceHandle(p) ==
    IF p.fn \in AbortFns \cup EndFns THEN {0}
    ELSE IF p.fn \in SetupFns
         THEN IF SetupOk(p) THEN FreeHandles ELSE {0}
    ELSE IF p.iov.op_handle \in live THEN {p.iov.op_handle}
    ELSE {0}

ServiceAnswer(p, channel_status, out, h) ==
    /\ channel_status \in ServiceStatus(p)
    /\ p.fn \in HandleFns =>
          /\ \A i \in HandleIdx(p) : out[i].len = p.out_vec[i].len
          /\ HandleIdx(p) # {} /\ p.hobj # NONE => h \in ServiceHandle(p)

\* the handles allocated after the request: an operation that ended, or was
\* misused, gives its handle back; a setup that succeeds takes h
ServiceLive(p, h) ==
    IF p.fn \notin HandleFns THEN live
    ELSE IF p.fn \in SetupFns
         THEN IF SetupOk(p)
              THEN live \cup ({h} \ {0})
              ELSE IF p.fn = "psa_hash_clone" THEN live
                   ELSE live \ {p.iov.op_handle}
    ELSE IF p.fn \in AbortFns \cup EndFns THEN live \ {p.iov.op_handle}
    ELSE live

\* mutant: a failure of the channel is reported as success
ReturnStatus_success(p, channel_status) ==
    IF p.void THEN VOID ELSE PSA_SUCCESS
\* "return status;" (psa_reset_key_attributes: "(void)API_DISPATCH(...); return;")
ReturnStatus(p, channel_status) ==
    IF p.void THEN VOID ELSE channel_status

\* mutant: one handle shared by all operation objects
HandleWrite_shared(p, h) == [o \in Objs |-> h]
\* the channel stores h through {.base = &(operation->handle)}
HandleWrite(p, h) == [handle EXCEPT ![p.hobj] = h]

\* the causes for which psa_call "does not return" that the client code
\* decides: an invalid memory reference (a null base with a length) among
\* the descriptors handed over, or in_num + out_num > PSA_MAX_IOVEC.  The
\* veneer is a plain function call.
InvalidCall(p) ==
    /\ build.psa_api
    /\ \/ \E i \in 1..p.in_num : p.in_vec[i].base = NULL /\ p.in_vec[i].len # 0
       \/ \E i \in 1..p.out_num : p.out_vec[i].base = NULL /\ p.out_vec[i].len # 0
       \/ p.in_num + p.out_num > PSA_MAX_IOVEC

\* the function calls the channel primitive and waits inside it
Dispatch(p) ==
    /\ ndispatch < (IF service THEN MaxServiceDispatch ELSE MaxDispatch)
    /\ ndispatch' = ndispatch + 1
    /\ dispatched' = <<[in_vec |-> SubSeq(p.in_vec, 1, p.in_num),
                        in_num |-> p.in_num,
                        out_vec |-> SubSeq(p.out_vec, 1, p.out_num),
                        out_num |-> p.out_num]>>
    /\ pc' = "in_call"
    /\ UNCHANGED <<handle, served, post, ret, lenout, status, live, aborts>>

\* the course of an API function taken statement by statement: the caller
\* has entered the function with its arguments and nothing else has happened
RunEnter(p) ==
    /\ run.pc = "idle"
    /\ ndispatch < MaxDispatch
    /\ pc' = "running"
    /\ run' = [run EXCEPT !.pc = "entry"]
    /\ UNCHANGED <<handle, served, ndispatch, dispatched, post, ret, lenout,
                   status, live, aborts>>

ApiCall(p) ==
    /\ pc = "idle"
    /\ call' = p
    /\ UNCHANGED <<build, service, thread, conn>>
    /\ IF run.stepwise
       THEN RunEnter(p)
       ELSE /\ UNCHANGED run
            /\ IF ModuleDisabled(p.module, p.guard)
               THEN LocalReturn(p, PSA_ERROR_NOT_SUPPORTED)
               ELSE IF p.check # PASS
                    THEN LocalReturn(p, p.check)
                    ELSE Dispatch(p)

\* the frame of an API function whose module is compiled out has no header
\* and no descriptor arrays
Frame(fn, module, guard, args, check, iov, in_vec, in_num, out_vec, out_num, hobj, lens) ==
    IF ModuleDisabled(module, guard)
    THEN [fn |-> fn, module |-> module, guard |-> guard, args |-> args,
          check |-> PASS, iov |-> NONE, in_vec |-> <<>>, in_num |-> 0,
          out_vec |-> <<>>, out_num |-> 0, hobj |-> NONE, lens |-> <<>>,
          void |-> FALSE]
    ELSE [fn |-> fn, module |-> module, guard |-> guard, args |-> args,
          check |-> check, iov |-> iov, in_vec |-> in_vec, in_num |-> in_num,
          out_vec |-> out_vec, out_num |-> out_num, hobj |-> hobj,
          lens |-> lens, void |-> FALSE]

\* API_DISPATCH: both arrays whole
Whole(fn, module, args, iov, in_vec, out_vec, hobj, lens) ==
    Frame(fn, module, "ifdef", args, PASS, iov, in_vec, ARRAY_SIZE(in_vec),
          out_vec, ARRAY_SIZE(out_vec), hobj, lens)

\* API_DISPATCH_NO_OUTVEC: in_vec whole, (psa_outvec *)NULL and 0
NoOutvec(fn, module, args, iov, in_vec) ==
    Frame(fn, module, "ifdef", args, PASS, iov, in_vec, ARRAY_SIZE(in_vec),
          <<>>, 0, NONE, <<>>)

(***************************************************************************)
(* Key management.                                                         *)
(***************************************************************************)
psa_crypto_init ==
    /\ pc = "idle"
    /\ call' = [fn |-> "psa_crypto_init", module |-> NONE, guard |-> NONE,
                args |-> <<>>,
                check |-> PSA_SUCCESS, iov |-> NONE, in_vec |-> <<>>,
                in_num |-> 0, out_vec |-> <<>>, out_num |-> 0, hobj |-> NONE,
                lens |-> <<>>, void |-> FALSE]
    /\ IF run.stepwise
       THEN RunEnter(call')
       ELSE /\ UNCHANGED run
            /\ LocalReturn(call', PSA_SUCCESS)
    /\ UNCHANGED <<build, service, thread, conn>>

psa_open_key ==
    ApiCall(Whole("psa_open_key", "KEY", <<>>,
        Iov("TFM_CRYPTO_OPEN_KEY_SID", 0),
        <<HdrVec, Vec("&id", SIZEOF_psa_key_id_t)>>,
        <<Vec("key_id", SIZEOF_psa_key_id_t)>>, NONE, <<>>))

psa_close_key ==
    ApiCall(NoOutvec("psa_close_key", "KEY", <<>>,
        Iov("TFM_CRYPTO_CLOSE_KEY_SID", 0), <<HdrVec>>))

psa_import_key ==
    /\ pc = "idle"
    /\ \E data_length \in Lens :
        ApiCall(Whole("psa_import_key", "KEY", [data_length |-> data_length],
            Iov("TFM_CRYPTO_IMPORT_KEY_SID", 0),
            <<HdrVec, Vec("attributes", SIZEOF_psa_key_attributes_t),
              Vec("data", data_length)>>,
            <<Vec("key_id", SIZEOF_psa_key_id_t)>>, NONE, <<>>))

psa_destroy_key ==
    ApiCall(NoOutvec("psa_destroy_key", "KEY", <<>>,
        Iov("TFM_CRYPTO_DESTROY_KEY_SID", 0), <<HdrVec>>))

psa_get_key_attributes ==
    ApiCall(Whole("psa_get_key_attributes", "KEY", <<>>,
        Iov("TFM_CRYPTO_GET_KEY_ATTRIBUTES_SID", 0),
        <<HdrVec>>,
        <<Vec("attributes", SIZEOF_psa_key_attributes_t)>>, NONE, <<>>))

\* void: the status of the dispatch is discarded
psa_reset_key_attributes ==
    ApiCall([Whole("psa_reset_key_attributes", "KEY", <<>>,
                Iov("TFM_CRYPTO_RESET_KEY_ATTRIBUTES_SID", 0),
                <<HdrVec>>,
                <<Vec("attributes", SIZEOF_psa_key_attributes_t)>>, NONE, <<>>)
             EXCEPT !.void = TRUE])

psa_export_key ==
    /\ pc = "idle"
    /\ \E data_size \in Lens :
        ApiCall(Whole("psa_export_key", "KEY", [data_size |-> data_size],
            Iov("TFM_CRYPTO_EXPORT_KEY_SID", 0),
            <<HdrVec>>,
            <<Vec("data", data_size)>>, NONE,
            <<LenFrom("data_length", 0)>>))

psa_export_public_key ==
    /\ pc = "idle"
    /\ \E data_size \in Lens :
        ApiCall(Whole("psa_export_public_key", "KEY", [data_size |-> data_size],
            Iov("TFM_CRYPTO_EXPORT_PUBLIC_KEY_SID", 0),
            <<HdrVec>>,
            <<Vec("data", data_size)>>, NONE,
            <<LenFrom("data_length", 0)>>))

psa_purge_key ==
    ApiCall(NoOutvec("psa_purge_key", "KEY", <<>>,
        Iov("TFM_CRYPTO_PURGE_KEY_SID", 0), <<HdrVec>>))

psa_copy_key ==
    ApiCall(Whole("psa_copy_key", "KEY", <<>>,
        Iov("TFM_CRYPTO_COPY_KEY_SID", 0),
        <<HdrVec, Vec("attributes", SIZEOF_psa_key_attributes_t)>>,
        <<Vec("target_key_id", SIZEOF_psa_key_id_t)>>, NONE, <<>>))

psa_generate_key ==
    ApiCall(Whole("psa_generate_key", "KEY", <<>>,
        Iov("TFM_CRYPTO_GENERATE_KEY_SID", 0),
        <<HdrVec, Vec("attributes", SIZEOF_psa_key_attributes_t)>>,
        <<Vec("key_id", SIZEOF_psa_key_id_t)>>, NONE, <<>>))

(***************************************************************************)
(* The symmetric cipher functions.                                         *)
(***************************************************************************)
psa_cipher_generate_iv ==
    /\ pc = "idle"
    /\ \E operation \in Objs, iv_size \in Lens :
        ApiCall(Whole("psa_cipher_generate_iv", "CIPHER",
            [operation |-> operation, iv_size |-> iv_size],
            Iov("TFM_CRYPTO_CIPHER_GENERATE_IV_SID", OpHandle(operation)),
            <<HdrVec>>,
            <<HandleVec, Vec("iv", iv_size)>>,
            operation, <<LenFrom("iv_length", 1)>>))

psa_cipher_set_iv ==
    /\ pc = "idle"
    /\ \E operation \in Objs, iv_length \in Lens :
        ApiCall(Whole("psa_cipher_set_iv", "CIPHER",
            [operation |-> operation, iv_length |-> iv_length],
            Iov("TFM_CRYPTO_CIPHER_SET_IV_SID", OpHandle(operation)),
            <<HdrVec, Vec("iv", iv_length)>>,
            <<HandleVec>>, operation, <<>>))

psa_cipher_encrypt_setup ==
    /\ pc = "idle"
    /\ \E operation \in Objs :
        ApiCall(Whole("psa_cipher_encrypt_setup", "CIPHER",
            [operation |-> operation],
            Iov("TFM_CRYPTO_CIPHER_ENCRYPT_SETUP_SID", OpHandle(operation)),
            <<HdrVec>>, <<HandleVec>>, operation, <<>>))

psa_cipher_decrypt_setup ==
    /\ pc = "idle"
    /\ \E operation \in Objs :
        ApiCall(Whole("psa_cipher_decrypt_setup", "CIPHER",
            [operation |-> operation],
            Iov("TFM_CRYPTO_CIPHER_DECRYPT_SETUP_SID", OpHandle(operation)),
            <<HdrVec>>, <<HandleVec>>, operation, <<>>))

psa_cipher_update ==
    /\ pc = "idle"
    /\ \E operation \in Objs, input_length \in Lens, output_size \in Lens :
        ApiCall(Whole("psa_cipher_update", "CIPHER",
            [operation |-> operation, input_length |-> input_length,
             output_size |-> output_size],
            Iov("TFM_CRYPTO_CIPHER_UPDATE_SID", OpHandle(operation)),
            <<HdrVec, Vec("input", input_length)>>,
            <<HandleVec, Vec("output", output_size)>>,
            operation, <<LenFrom("output_length", 1)>>))

\* mutant: the abort without the descriptor for the handle
psa_cipher_abort_no_handle_vec ==
    /\ pc = "idle"
    /\ \E operation \in Objs :
        ApiCall(NoOutvec("psa_cipher_abort", "CIPHER",
            [operation |-> operation],
            Iov("TFM_CRYPTO_CIPHER_ABORT_SID", OpHandle(operation)),
            <<HdrVec>>))

psa_cipher_abort ==
    /\ pc = "idle"
    /\ \E operation \in Objs :
        ApiCall(Whole("psa_cipher_abort", "CIPHER",
            [operation |-> operation],
            Iov("TFM_CRYPTO_CIPHER_ABORT_SID", OpHandle(operation)),
            <<HdrVec>>, <<HandleVec>>, operation, <<>>))

psa_cipher_finish ==
    /\ pc = "idle"
    /\ \E operation \in Objs, output_size \in Lens :
        ApiCall(Whole("psa_cipher_finish", "CIPHER",
            [operation |-> operation, output_size |-> output_size],
            Iov("TFM_CRYPTO_CIPHER_FINISH_SID", OpHandle(operation)),
            <<HdrVec>>,
            <<HandleVec, Vec("output", output_size)>>,
            operation, <<LenFrom("output_length", 1)>>))

psa_cipher_encrypt ==
    /\ pc = "idle"
    /\ \E input_length \in Lens, output_size \in Lens :
        ApiCall(Whole("psa_cipher_encrypt", "CIPHER",
            [input_length |-> input_length, output_size |-> output_size],
            Iov("TFM_CRYPTO_CIPHER_ENCRYPT_SID", 0),
            <<HdrVec, Vec("input", input_length)>>,
            <<Vec("output", output_size)>>,
            NONE, <<LenFrom("output_length", 0)>>))

psa_cipher_decrypt ==
    /\ pc = "idle"
    /\ \E input_length \in Lens, output_size \in Lens :
        ApiCall(Whole("psa_cipher_decrypt", "CIPHER",
            [input_length |-> input_length, output_size |-> output_size],
            Iov("TFM_CRYPTO_CIPHER_DECRYPT_SID", 0),
            <<HdrVec, Vec("input", input_length)>>,
            <<Vec("output", output_size)>>,
            NONE, <<LenFrom("output_length", 0)>>))

(***************************************************************************)
(* The hash functions.                                                     *)
(***************************************************************************)
psa_hash_setup ==
    /\ pc = "idle"
    /\ \E operation \in Objs :
        ApiCall(Whole("psa_hash_setup", "HASH",
            [operation |-> operation],
            Iov("TFM_CRYPTO_HASH_SETUP_SID", OpHandle(operation)),
            <<HdrVec>>, <<HandleVec>>, operation, <<>>))

\* mutant: an update of an object without an operation is refused locally
hash_update_frame_active_only(operation, input_length) ==
    Frame("psa_hash_update", "HASH", "ifdef",
        [operation |-> operation, input_length |-> input_length],
        IF handle[operation] = 0 THEN PSA_ERROR_BAD_STATE ELSE PASS,
        Iov("TFM_CRYPTO_HASH_UPDATE_SID", OpHandle(operation)),
        <<HdrVec, Vec("input", input_length)>>, 2,
        <<HandleVec>>, 1, operation, <<>>)
\* the locals of psa_hash_update
hash_update_frame(operation, input_length) ==
    Whole("psa_hash_update", "HASH",
        [operation |-> operation, input_length |-> input_length],
        Iov("TFM_CRYPTO_HASH_UPDATE_SID", OpHandle(operation)),
        <<HdrVec, Vec("input", input_length)>>,
        <<HandleVec>>, operation, <<>>)

psa_hash_update ==
    /\ pc = "idle"
    /\ \E operation \in Objs, input_length \in Lens :
        ApiCall(hash_update_frame(operation, input_length))

psa_hash_finish ==
    /\ pc = "idle"
    /\ \E operation \in Objs, hash_size \in Lens :
        ApiCall(Whole("psa_hash_finish", "HASH",
            [operation |-> operation, hash_size |-> hash_size],
            Iov("TFM_CRYPTO_HASH_FINISH_SID", OpHandle(operation)),
            <<HdrVec>>,
            <<HandleVec, Vec("hash", hash_size)>>,
            operation, <<LenFrom("hash_length", 1)>>))

psa_hash_verify ==
    /\ pc = "idle"
    /\ \E operation \in Objs, hash_length \in Lens :
        ApiCall(Whole("psa_hash_verify", "HASH",
            [operation |-> operation, hash_length |-> hash_length],
            Iov("TFM_CRYPTO_HASH_VERIFY_SID", OpHandle(operation)),
            <<HdrVec, Vec("hash", hash_length)>>,
            <<HandleVec>>, operation, <<>>))

psa_hash_abort ==
    /\ pc = "idle"
    /\ \E operation \in Objs :
        ApiCall(Whole("psa_hash_abort", "HASH",
            [operation |-> operation],
            Iov("TFM_CRYPTO_HASH_ABORT_SID", OpHandle(operation)),
            <<HdrVec>>, <<HandleVec>>, operation, <<>>))

\* mutant: the target check left out
hash_clone_check_absent(target_operation) == PASS
\* if (target_operation && (target_operation->handle != 0)) return BAD_STATE
hash_clone_check(target_operation) ==
    IF target_operation # NULL /\ handle[target_operation] # 0
    THEN PSA_ERROR_BAD_STATE
    ELSE PASS

psa_hash_clone ==
    /\ pc = "idle"
    /\ \E source_operation \in Objs, target_operation \in Objs \cup {NULL} :
        ApiCall(Frame("psa_hash_clone", "HASH", "ifdef",
            [source_operation |-> source_operation,
             target_operation |-> target_operation],
            hash_clone_check(target_operation),
            Iov("TFM_CRYPTO_HASH_CLONE_SID", OpHandle(source_operation)),
            <<HdrVec>>, 1,
            <<Vec(IF target_operation = NULL THEN NULL ELSE "target_operation",
                  SIZEOF_psa_hash_operation_t)>>, 1,
            IF target_operation = NULL THEN NONE ELSE target_operation,
            <<>>))

\* mutant: the descriptors of psa_hash_finish, handle first
psa_hash_compute_as_finish ==
    /\ pc = "idle"
    /\ \E input_length \in Lens, hash_size \in Lens :
        ApiCall(Frame("psa_hash_compute", "HASH", "if",
            [input_length |-> input_length, hash_size |-> hash_size],
            PASS,
            Iov("TFM_CRYPTO_HASH_COMPUTE_SID", 0),
            <<HdrVec>>, 1,
            <<HandleVec, Vec("hash", hash_size)>>, 2,
            NONE, <<LenFrom("hash_length", 1)>>))

\* guarded by "#if (TFM_CRYPTO_HASH_MODULE_DISABLED != 0)"
psa_hash_compute ==
    /\ pc = "idle"
    /\ \E input_length \in Lens, hash_size \in Lens :
        ApiCall(Frame("psa_hash_compute", "HASH", "if",
            [input_length |-> input_length, hash_size |-> hash_size],
            PASS,
            Iov("TFM_CRYPTO_HASH_COMPUTE_SID", 0),
            <<HdrVec, Vec("input", input_length)>>, 2,
            <<Vec("hash", hash_size)>>, 1,
            NONE, <<LenFrom("hash_length", 0)>>))

\* guarded by "#if (TFM_CRYPTO_HASH_MODULE_DISABLED != 0)"
psa_hash_compare ==
    /\ pc = "idle"
    /\ \E input_length \in Lens, hash_length \in Lens :
        ApiCall(Frame("psa_hash_compare", "HASH", "if",
            [input_length |-> input_length, hash_length |-> hash_length],
            PASS,
            Iov("TFM_CRYPTO_HASH_COMPARE_SID", 0),
            <<HdrVec, Vec("input", input_length), Vec("hash", hash_length)>>, 3,
            <<>>, 0, NONE, <<>>))

(***************************************************************************)
(* The MAC functions.                                                      *)
(***************************************************************************)
psa_mac_sign_setup ==
    /\ pc = "idle"
    /\ \E operation \in Objs :
        ApiCall(Whole("psa_mac_sign_setup", "MAC",
            [operation |-> operation],
            Iov("TFM_CRYPTO_MAC_SIGN_SETUP_SID", OpHandle(operation)),
            <<HdrVec>>, <<HandleVec>>, operation, <<>>))

psa_mac_verify_setup ==
    /\ pc = "idle"
    /\ \E operation \in Objs :
        ApiCall(Whole("psa_mac_verify_setup", "MAC",
            [operation |-> operation],
            Iov("TFM_CRYPTO_MAC_VERIFY_SETUP_SID", OpHandle(operation)),
            <<HdrVec>>, <<HandleVec>>, operation, <<>>))

psa_mac_update ==
    /\ pc = "idle"
    /\ \E operation \in Objs, input_length \in Lens :
        ApiCall(Whole("psa_mac_update", "MAC",
            [operation |-> operation, input_length |-> input_length],
            Iov("TFM_CRYPTO_MAC_UPDATE_SID", OpHandle(operation)),
            <<HdrVec, Vec("input", input_length)>>,
            <<HandleVec>>, operation, <<>>))

psa_mac_sign_finish ==
    /\ pc = "idle"
    /\ \E operation \in Objs, mac_size \in Lens :
        ApiCall(Whole("psa_mac_sign_finish", "MAC",
            [operation |-> operation, mac_size |-> mac_size],
            Iov("TFM_CRYPTO_MAC_SIGN_FINISH_SID", OpHandle(operation)),
            <<HdrVec>>,
            <<HandleVec, Vec("mac", mac_size)>>,
            operation, <<LenFrom("mac_length", 1)>>))

psa_mac_verify_finish ==
    /\ pc = "idle"
    /\ \E operation \in Objs, mac_length \in Lens :
        ApiCall(Whole("psa_mac_verify_finish", "MAC",
            [operation |-> operation, mac_length |-> mac_length],
            Iov("TFM_CRYPTO_MAC_VERIFY_FINISH_SID", OpHandle(operation)),
            <<HdrVec, Vec("mac", mac_length)>>,
            <<HandleVec>>, operation, <<>>))

psa_mac_abort ==
    /\ pc = "idle"
    /\ \E operation \in Objs :
        ApiCall(Whole("psa_mac_abort", "MAC",
            [operation |-> operation],
            Iov("TFM_CRYPTO_MAC_ABORT_SID", OpHandle(operation)),
            <<HdrVec>>, <<HandleVec>>, operation, <<>>))

psa_mac_compute ==
    /\ pc = "idle"
    /\ \E input_length \in Lens, mac_size \in Lens :
        ApiCall(Whole("psa_mac_compute", "MAC",
            [input_length |-> input_length, mac_size |-> mac_size],
            Iov("TFM_CRYPTO_MAC_COMPUTE_SID", 0),
            <<HdrVec, Vec("input", input_length)>>,
            <<Vec("mac", mac_size)>>,
            NONE, <<LenFrom("mac_length", 0)>>))

psa_mac_verify ==
    /\ pc = "idle"
    /\ \E input_length \in Lens, mac_length \in Lens :
        ApiCall(NoOutvec("psa_mac_verify", "MAC",
            [input_length |-> input_length, mac_length |-> mac_length],
            Iov("TFM_CRYPTO_MAC_VERIFY_SID", 0),
            <<HdrVec, Vec("input", input_length), Vec("mac", mac_length)>>))

(***************************************************************************)
(* Optional parameters.                                                    *)
(***************************************************************************)
\* mutant: the sanitizing check left out
optional_check_absent(ref, len) == PASS
\* "Sanitize the optional input/output":
\* if ((ref == NULL) && (len != 0)) return PSA_ERROR_INVALID_ARGUMENT
optional_check(ref, len) ==
    IF ref = NULL /\ len # 0 THEN PSA_ERROR_INVALID_ARGUMENT ELSE PASS

\* under TFM_PSA_API: in_len = ARRAY_SIZE(in_vec); if (ref == NULL) in_len--;
\* otherwise API_DISPATCH hands over ARRAY_SIZE(in_vec)
BindingInLen(psa_api, in_vec, ref) ==
    IF psa_api
    THEN IF ref = NULL THEN ARRAY_SIZE(in_vec) - 1 ELSE ARRAY_SIZE(in_vec)
    ELSE ARRAY_SIZE(in_vec)

\* the input count in the binding of this build
InLen(in_vec, ref) == BindingInLen(build.psa_api, in_vec, ref)

\* under TFM_PSA_API: out_len = ARRAY_SIZE(out_vec);
\* if (ref == NULL || size == 0) out_len--;
\* otherwise API_DISPATCH hands over ARRAY_SIZE(out_vec)
BindingOutLen(psa_api, out_vec, ref, size) ==
    IF psa_api
    THEN IF ref = NULL \/ size = 0
         THEN ARRAY_SIZE(out_vec) - 1 ELSE ARRAY_SIZE(out_vec)
    ELSE ARRAY_SIZE(out_vec)

\* the output count in the binding of this build
OutLen(out_vec, ref, size) == BindingOutLen(build.psa_api, out_vec, ref, size)

(***************************************************************************)
(* The AEAD functions.                                                     *)
(***************************************************************************)
\* mutant: the nonce length is not checked
nonce_check_absent(nonce_length) == PASS
\* mutant: the nonce length is checked only once a request has been served
nonce_check_after_first_dispatch(nonce_length) ==
    IF ndispatch > 0 /\ nonce_length > TFM_CRYPTO_MAX_NONCE_LENGTH
    THEN PSA_ERROR_INVALID_ARGUMENT ELSE PASS
\* if (nonce_length > TFM_CRYPTO_MAX_NONCE_LENGTH) return INVALID_ARGUMENT
nonce_check(nonce_length) ==
    IF nonce_length > TFM_CRYPTO_MAX_NONCE_LENGTH
    THEN PSA_ERROR_INVALID_ARGUMENT ELSE PASS

\* mutant (below): nonce_length is stored outside "if (nonce != NULL)"
\* .aead_in = {.nonce = {0}, .nonce_length = 0}, then
\* if (nonce != NULL) { for (idx < nonce_length) iov.aead_in.nonce[idx] =
\* nonce[idx]; iov.aead_in.nonce_length = nonce_length; }
aead_iov_unguarded(sid, nonce, nonce_length) ==
    [Iov(sid, 0) EXCEPT
        !.nonce = [i \in 1..TFM_CRYPTO_MAX_NONCE_LENGTH |->
                      IF i - 1 < nonce_length /\ nonce # NULL
                      THEN CallerByte(i - 1) ELSE 0],
        !.nonce_length = nonce_length]
aead_iov(sid, nonce, nonce_length) ==
    IF nonce # NULL
    THEN [Iov(sid, 0) EXCEPT
            !.nonce = [i \in 1..TFM_CRYPTO_MAX_NONCE_LENGTH |->
                          IF i - 1 < nonce_length THEN CallerByte(i - 1) ELSE 0],
            !.nonce_length = nonce_length]
    ELSE Iov(sid, 0)

\* mutant: the nonce travels in a descriptor of its own
aead_in_vec_nonce_vec(filled, data, data_length, additional_data, additional_data_length) ==
    <<IF filled THEN Vec("&iov", SIZEOF_tfm_crypto_pack_iovec) ELSE Vec(NULL, 0),
      Vec("nonce", 0),
      Vec(data, data_length),
      Vec(additional_data, additional_data_length)>>
\* mutant: entry 0 stays as declared
aead_in_vec_unfilled(filled, data, data_length, additional_data, additional_data_length) ==
    <<Vec(NULL, 0),
      Vec(data, data_length),
      Vec(additional_data, additional_data_length)>>
\* in_vec of psa_aead_encrypt/psa_aead_decrypt: entry 0 is declared
\* {NULL, 0} and filled with the header after the local checks
aead_in_vec(filled, data, data_length, additional_data, additional_data_length) ==
    <<IF filled THEN HdrVec ELSE Vec(NULL, 0),
      Vec(data, data_length),
      Vec(additional_data, additional_data_length)>>

psa_aead_encrypt ==
    /\ pc = "idle"
    /\ \E nonce \in {NULL, "nonce"}, nonce_length \in NonceLens,
       additional_data \in {NULL, "additional_data"},
       additional_data_length \in Lens,
       plaintext_length \in Lens, ciphertext_size \in Lens :
        LET c1 == optional_check(additional_data, additional_data_length)
            c2 == nonce_check(nonce_length)
            ok == c1 = PASS /\ c2 = PASS
            in_vec == aead_in_vec(ok, "plaintext", plaintext_length,
                                  additional_data, additional_data_length)
        IN  ApiCall(Frame("psa_aead_encrypt", "AEAD", "ifdef",
                [nonce |-> nonce, nonce_length |-> nonce_length,
                 additional_data |-> additional_data,
                 additional_data_length |-> additional_data_length,
                 plaintext_length |-> plaintext_length,
                 ciphertext_size |-> ciphertext_size],
                IF c1 # PASS THEN c1 ELSE c2,
                IF ok THEN aead_iov("TFM_CRYPTO_AEAD_ENCRYPT_SID", nonce, nonce_length)
                      ELSE Iov("TFM_CRYPTO_AEAD_ENCRYPT_SID", 0),
                IF c1 # PASS THEN <<>> ELSE in_vec,
                IF ok THEN InLen(in_vec, additional_data) ELSE 0,
                IF c1 # PASS THEN <<>> ELSE <<Vec("ciphertext", ciphertext_size)>>,
                IF ok THEN 1 ELSE 0,
                NONE, <<LenFrom("ciphertext_length", 0)>>))

psa_aead_decrypt ==
    /\ pc = "idle"
    /\ \E nonce \in {NULL, "nonce"}, nonce_length \in NonceLens,
       additional_data \in {NULL, "additional_data"},
       additional_data_length \in Lens,
       ciphertext_length \in Lens, plaintext_size \in Lens :
        LET c1 == optional_check(additional_data, additional_data_length)
            c2 == nonce_check(nonce_length)
            ok == c1 = PASS /\ c2 = PASS
            in_vec == aead_in_vec(ok, "ciphertext", ciphertext_length,
                                  additional_data, additional_data_length)
        IN  ApiCall(Frame("psa_aead_decrypt", "AEAD", "ifdef",
                [nonce |-> nonce, nonce_length |-> nonce_length,
                 additional_data |-> additional_data,
                 additional_data_length |-> additional_data_length,
                 ciphertext_length |-> ciphertext_length,
                 plaintext_size |-> plaintext_size],
                IF c1 # PASS THEN c1 ELSE c2,
                IF ok THEN aead_iov("TFM_CRYPTO_AEAD_DECRYPT_SID", nonce, nonce_length)
                      ELSE Iov("TFM_CRYPTO_AEAD_DECRYPT_SID", 0),
                IF c1 # PASS THEN <<>> ELSE in_vec,
                IF ok THEN InLen(in_vec, additional_data) ELSE 0,
                IF c1 # PASS THEN <<>> ELSE <<Vec("plaintext", plaintext_size)>>,
                IF ok THEN 1 ELSE 0,
                NONE, <<LenFrom("plaintext_length", 0)>>))

psa_aead_encrypt_setup ==
    /\ pc = "idle"
    /\ \E operation \in Objs :
        ApiCall(Whole("psa_aead_encrypt_setup", "AEAD",
            [operation |-> operation],
            Iov("TFM_CRYPTO_AEAD_ENCRYPT_SETUP_SID", OpHandle(operation)),
            <<HdrVec>>, <<HandleVec>>, operation, <<>>))

psa_aead_decrypt_setup ==
    /\ pc = "idle"
    /\ \E operation \in Objs :
        ApiCall(Whole("psa_aead_decrypt_setup", "AEAD",
            [operation |-> operation],
            Iov("TFM_CRYPTO_AEAD_DECRYPT_SETUP_SID", OpHandle(operation)),
            <<HdrVec>>, <<HandleVec>>, operation, <<>>))

psa_aead_generate_nonce ==
    /\ pc = "idle"
    /\ \E operation \in Objs, nonce_size \in Lens :
        ApiCall(Whole("psa_aead_generate_nonce", "AEAD",
            [operation |-> operation, nonce_size |-> nonce_size],
            Iov("TFM_CRYPTO_AEAD_GENERATE_NONCE_SID", OpHandle(operation)),
            <<HdrVec>>,
            <<HandleVec, Vec("nonce", nonce_size)>>,
            operation, <<LenFrom("nonce_length", 1)>>))

psa_aead_set_nonce ==
    /\ pc = "idle"
    /\ \E operation \in Objs, nonce_length \in Lens :
        ApiCall(Whole("psa_aead_set_nonce", "AEAD",
            [operation |-> operation, nonce_length |-> nonce_length],
            Iov("TFM_CRYPTO_AEAD_SET_NONCE_SID", OpHandle(operation)),
            <<HdrVec, Vec("nonce", nonce_length)>>,
            <<HandleVec>>, operation, <<>>))

psa_aead_set_lengths ==
    /\ pc = "idle"
    /\ \E operation \in Objs :
        ApiCall(Whole("psa_aead_set_lengths", "AEAD",
            [operation |-> operation],
            Iov("TFM_CRYPTO_AEAD_SET_LENGTHS_SID", OpHandle(operation)),
            <<HdrVec>>, <<HandleVec>>, operation, <<>>))

psa_aead_update_ad ==
    /\ pc = "idle"
    /\ \E operation \in Objs, input \in {NULL, "input"}, input_length \in Lens :
        LET c1 == optional_check(input, input_length)
            in_vec == <<HdrVec, Vec(input, input_length)>>
        IN  ApiCall(Frame("psa_aead_update_ad", "AEAD", "ifdef",
                [operation |-> operation, input |-> input,
                 input_length |-> input_length],
                c1,
                Iov("TFM_CRYPTO_AEAD_UPDATE_AD_SID", OpHandle(operation)),
                IF c1 # PASS THEN <<>> ELSE in_vec,
                IF c1 # PASS THEN 0 ELSE InLen(in_vec, input),
                IF c1 # PASS THEN <<>> ELSE <<HandleVec>>,
                IF c1 # PASS THEN 0 ELSE 1,
                operation, <<>>))

psa_aead_update ==
    /\ pc = "idle"
    /\ \E operation \in Objs, input \in {NULL, "input"}, input_length \in Lens,
       output_size \in Lens :
        LET c1 == optional_check(input, input_length)
            in_vec == <<HdrVec, Vec(input, input_length)>>
        IN  ApiCall(Frame("psa_aead_update", "AEAD", "ifdef",
                [operation |-> operation, input |-> input,
                 input_length |-> input_length, output_size |-> output_size],
                c1,
                Iov("TFM_CRYPTO_AEAD_UPDATE_SID", OpHandle(operation)),
                IF c1 # PASS THEN <<>> ELSE in_vec,
                IF c1 # PASS THEN 0 ELSE InLen(in_vec, input),
                IF c1 # PASS THEN <<>>
                ELSE <<HandleVec, Vec("output", output_size)>>,
                IF c1 # PASS THEN 0 ELSE 2,
                operation, <<LenFrom("output_length", 1)>>))

\* if ((out_len == n) && (length_ptr == NULL)) return INVALID_ARGUMENT,
\* compiled under TFM_PSA_API only
length_ptr_check(out_len, n, length_ptr) ==
    IF build.psa_api /\ out_len = n /\ length_ptr = NULL
    THEN PSA_ERROR_INVALID_ARGUMENT ELSE PASS

\* mutant: no "else *length_ptr = 0"
optional_out_len_no_else(out_len, n, length_ptr, idx) ==
    IF build.psa_api /\ out_len # n THEN <<>> ELSE <<LenFrom(length_ptr, idx)>>
\* under TFM_PSA_API: if (out_len == n) *length_ptr = out_vec[idx].len;
\* else *length_ptr = 0; otherwise *length_ptr = out_vec[idx].len
optional_out_len(out_len, n, length_ptr, idx) ==
    IF build.psa_api
    THEN IF out_len = n THEN <<LenFrom(length_ptr, idx)>>
         ELSE <<LenZero(length_ptr)>>
    ELSE <<LenFrom(length_ptr, idx)>>

psa_aead_finish ==
    /\ pc = "idle"
    /\ \E operation \in Objs, ciphertext \in {NULL, "ciphertext"},
       ciphertext_size \in Lens,
       ciphertext_length \in {NULL, "ciphertext_length"}, tag_size \in Lens :
        LET c1 == optional_check(ciphertext, ciphertext_size)
            out_vec == <<HandleVec, Vec("tag", tag_size),
                         Vec(ciphertext, ciphertext_size)>>
            out_len == OutLen(out_vec, ciphertext, ciphertext_size)
            c2 == length_ptr_check(out_len, 3, ciphertext_length)
        IN  ApiCall(Frame("psa_aead_finish", "AEAD", "ifdef",
                [operation |-> operation, ciphertext |-> ciphertext,
                 ciphertext_size |-> ciphertext_size,
                 ciphertext_length |-> ciphertext_length,
                 tag_size |-> tag_size],
                IF c1 # PASS THEN c1 ELSE c2,
                Iov("TFM_CRYPTO_AEAD_FINISH_SID", OpHandle(operation)),
                IF c1 # PASS THEN <<>> ELSE <<HdrVec>>,
                IF c1 # PASS THEN 0 ELSE 1,
                IF c1 # PASS THEN <<>> ELSE out_vec,
                IF c1 # PASS THEN 0 ELSE out_len,
                operation,
                optional_out_len(out_len, 3, ciphertext_length, 2)
                    \o <<LenFrom("tag_length", 1)>>))

psa_aead_verify ==
    /\ pc = "idle"
    /\ \E operation \in Objs, plaintext \in {NULL, "plaintext"},
       plaintext_size \in Lens,
       plaintext_length \in {NULL, "plaintext_length"}, tag_length \in Lens :
        LET c1 == optional_check(plaintext, plaintext_size)
            out_vec == <<HandleVec, Vec(plaintext, plaintext_size)>>
            out_len == OutLen(out_vec, plaintext, plaintext_size)
            c2 == length_ptr_check(out_len, 2, plaintext_length)
        IN  ApiCall(Frame("psa_aead_verify", "AEAD", "ifdef",
                [operation |-> operation, plaintext |-> plaintext,
                 plaintext_size |-> plaintext_size,
                 plaintext_length |-> plaintext_length,
                 tag_length |-> tag_length],
                IF c1 # PASS THEN c1 ELSE c2,
                Iov("TFM_CRYPTO_AEAD_VERIFY_SID", OpHandle(operation)),
                IF c1 # PASS THEN <<>> ELSE <<HdrVec, Vec("tag", tag_length)>>,
                IF c1 # PASS THEN 0 ELSE 2,
                IF c1 # PASS THEN <<>> ELSE out_vec,
                IF c1 # PASS THEN 0 ELSE out_len,
                operation,
                optional_out_len(out_len, 2, plaintext_length, 1)))

psa_aead_abort ==
    /\ pc = "idle"
    /\ \E operation \in Objs :
        ApiCall(Whole("psa_aead_abort", "AEAD",
            [operation |-> operation],
            Iov("TFM_CRYPTO_AEAD_ABORT_SID", OpHandle(operation)),
            <<HdrVec>>, <<HandleVec>>, operation, <<>>))

(***************************************************************************)
(* Asymmetric signature and encryption.                                    *)
(***************************************************************************)
psa_sign_message ==
    /\ pc = "idle"
    /\ \E input_length \in Lens, signature_size \in Lens :
        ApiCall(Whole("psa_sign_message", "ASYM_SIGN",
            [input_length |-> input_length, signature_size |-> signature_size],
            Iov("TFM_CRYPTO_SIGN_MESSAGE_SID", 0),
            <<HdrVec, Vec("input", input_length)>>,
            <<Vec("signature", signature_size)>>,
            NONE, <<LenFrom("signature_length", 0)>>))

psa_verify_message ==
    /\ pc = "idle"
    /\ \E input_length \in Lens, signature_length \in Lens :
        ApiCall(NoOutvec("psa_verify_message", "ASYM_SIGN",
            [input_length |-> input_length,
             signature_length |-> signature_length],
            Iov("TFM_CRYPTO_VERIFY_MESSAGE_SID", 0),
            <<HdrVec, Vec("input", input_length),
              Vec("signature", signature_length)>>))

psa_sign_hash ==
    /\ pc = "idle"
    /\ \E hash_length \in Lens, signature_size \in Lens :
        ApiCall(Whole("psa_sign_hash", "ASYM_SIGN",
            [hash_length |-> hash_length, signature_size |-> signature_size],
            Iov("TFM_CRYPTO_SIGN_HASH_SID", 0),
            <<HdrVec, Vec("hash", hash_length)>>,
            <<Vec("signature", signature_size)>>,
            NONE, <<LenFrom("signature_length", 0)>>))

psa_verify_hash ==
    /\ pc = "idle"
    /\ \E hash_length \in Lens, signature_length \in Lens :
        ApiCall(NoOutvec("psa_verify_hash", "ASYM_SIGN",
            [hash_length |-> hash_length,
             signature_length |-> signature_length],
            Iov("TFM_CRYPTO_VERIFY_HASH_SID", 0),
            <<HdrVec, Vec("hash", hash_length),
              Vec("signature", signature_length)>>))

psa_asymmetric_encrypt ==
    /\ pc = "idle"
    /\ \E input_length \in Lens, salt \in {NULL, "salt"}, salt_length \in Lens,
       output_size \in Lens :
        LET c1 == optional_check(salt, salt_length)
            in_vec == <<HdrVec, Vec("input", input_length),
                        Vec(salt, salt_length)>>
        IN  ApiCall(Frame("psa_asymmetric_encrypt", "ASYM_ENCRYPT", "ifdef",
                [input_length |-> input_length, salt |-> salt,
                 salt_length |-> salt_length, output_size |-> output_size],
                c1,
                Iov("TFM_CRYPTO_ASYMMETRIC_ENCRYPT_SID", 0),
                IF c1 # PASS THEN <<>> ELSE in_vec,
                IF c1 # PASS THEN 0 ELSE InLen(in_vec, salt),
                IF c1 # PASS THEN <<>> ELSE <<Vec("output", output_size)>>,
                IF c1 # PASS THEN 0 ELSE 1,
                NONE, <<LenFrom("output_length", 0)>>))

psa_asymmetric_decrypt ==
    /\ pc = "idle"
    /\ \E input_length \in Lens, salt \in {NULL, "salt"}, salt_length \in Lens,
       output_size \in Lens :
        LET c1 == optional_check(salt, salt_length)
            in_vec == <<HdrVec, Vec("input", input_length),
                        Vec(salt, salt_length)>>
        IN  ApiCall(Frame("psa_asymmetric_decrypt", "ASYM_ENCRYPT", "ifdef",
                [input_length |-> input_length, salt |-> salt,
                 salt_length |-> salt_length, output_size |-> output_size],
                c1,
                Iov("TFM_CRYPTO_ASYMMETRIC_DECRYPT_SID", 0),
                IF c1 # PASS THEN <<>> ELSE in_vec,
                IF c1 # PASS THEN 0 ELSE InLen(in_vec, salt),
                IF c1 # PASS THEN <<>> ELSE <<Vec("output", output_size)>>,
                IF c1 # PASS THEN 0 ELSE 1,
                NONE, <<LenFrom("output_length", 0)>>))

(***************************************************************************)
(* Key derivation and random generation.                                   *)
(***************************************************************************)
\* the handle is written through (uint32_t *) &(operation->handle)
psa_key_derivation_get_capacity ==
    /\ pc = "idle"
    /\ \E operation \in Objs :
        ApiCall(Whole("psa_key_derivation_get_capacity", "KEY_DERIVATION",
            [operation |-> operation],
            Iov("TFM_CRYPTO_KEY_DERIVATION_GET_CAPACITY_SID", OpHandle(operation)),
            <<HdrVec>>,
            <<HandleVec, Vec("capacity", SIZEOF_size_t)>>,
            operation, <<>>))

\* no descriptor for the handle
psa_key_derivation_output_bytes ==
    /\ pc = "idle"
    /\ \E operation \in Objs, output_length \in Lens :
        ApiCall(Whole("psa_key_derivation_output_bytes", "KEY_DERIVATION",
            [operation |-> operation, output_length |-> output_length],
            Iov("TFM_CRYPTO_KEY_DERIVATION_OUTPUT_BYTES_SID", OpHandle(operation)),
            <<HdrVec>>,
            <<Vec("output", output_length)>>,
            NONE, <<>>))

psa_key_derivation_input_key ==
    /\ pc = "idle"
    /\ \E operation \in Objs :
        ApiCall(Whole("psa_key_derivation_input_key", "KEY_DERIVATION",
            [operation |-> operation],
            Iov("TFM_CRYPTO_KEY_DERIVATION_INPUT_KEY_SID", OpHandle(operation)),
            <<HdrVec>>, <<HandleVec>>, operation, <<>>))

psa_key_derivation_abort ==
    /\ pc = "idle"
    /\ \E operation \in Objs :
        ApiCall(Whole("psa_key_derivation_abort", "KEY_DERIVATION",
            [operation |-> operation],
            Iov("TFM_CRYPTO_KEY_DERIVATION_ABORT_SID", OpHandle(operation)),
            <<HdrVec>>, <<HandleVec>>, operation, <<>>))

psa_key_derivation_key_agreement ==
    /\ pc = "idle"
    /\ \E operation \in Objs, peer_key_length \in Lens :
        ApiCall(Whole("psa_key_derivation_key_agreement", "KEY_DERIVATION",
            [operation |-> operation, peer_key_length |-> peer_key_length],
            Iov("TFM_CRYPTO_KEY_DERIVATION_KEY_AGREEMENT_SID", OpHandle(operation)),
            <<HdrVec, Vec("peer_key", peer_key_length)>>,
            <<HandleVec>>, operation, <<>>))

\* mutant: a zero size is dispatched like any other
random_size_check_absent(output_size) == PASS
\* if (output_size == 0) return PSA_SUCCESS
random_size_check(output_size) ==
    IF output_size = 0 THEN PSA_SUCCESS ELSE PASS

psa_generate_random ==
    /\ pc = "idle"
    /\ \E output \in {NULL, "output"}, output_size \in Lens :
        ApiCall(Frame("psa_generate_random", "RNG", "ifdef",
            [output |-> output, output_size |-> output_size],
            random_size_check(output_size),
            Iov("TFM_CRYPTO_GENERATE_RANDOM_SID", 0),
            <<HdrVec>>, 1,
            <<Vec(output, output_size)>>, 1,
            NONE, <<>>))

psa_raw_key_agreement ==
    /\ pc = "idle"
    /\ \E peer_key_length \in Lens, output_size \in Lens :
        ApiCall(Whole("psa_raw_key_agreement", "KEY_DERIVATION",
            [peer_key_length |-> peer_key_length, output_size |-> output_size],
            Iov("TFM_CRYPTO_RAW_KEY_AGREEMENT_SID", 0),
            <<HdrVec, Vec("peer_key", peer_key_length)>>,
            <<Vec("output", output_size)>>,
            NONE, <<LenFrom("output_length", 0)>>))

\* mutant: a setup of an object that holds a handle is refused locally
psa_key_derivation_setup_fresh_only ==
    /\ pc = "idle"
    /\ \E operation \in Objs :
        ApiCall(Frame("psa_key_derivation_setup", "KEY_DERIVATION", "ifdef",
            [operation |-> operation],
            IF handle[operation] # 0 THEN PSA_ERROR_BAD_STATE ELSE PASS,
            Iov("TFM_CRYPTO_KEY_DERIVATION_SETUP_SID", OpHandle(operation)),
            <<HdrVec>>, 1, <<HandleVec>>, 1, operation, <<>>))

psa_key_derivation_setup ==
    /\ pc = "idle"
    /\ \E operation \in Objs :
        ApiCall(Whole("psa_key_derivation_setup", "KEY_DERIVATION",
            [operation |-> operation],
            Iov("TFM_CRYPTO_KEY_DERIVATION_SETUP_SID", OpHandle(operation)),
            <<HdrVec>>, <<HandleVec>>, operation, <<>>))

psa_key_derivation_set_capacity ==
    /\ pc = "idle"
    /\ \E operation \in Objs :
        ApiCall(Whole("psa_key_derivation_set_capacity", "KEY_DERIVATION",
            [operation |-> operation],
            Iov("TFM_CRYPTO_KEY_DERIVATION_SET_CAPACITY_SID", OpHandle(operation)),
            <<HdrVec>>, <<HandleVec>>, operation, <<>>))

psa_key_derivation_input_bytes ==
    /\ pc = "idle"
    /\ \E operation \in Objs, data_length \in Lens :
        ApiCall(Whole("psa_key_derivation_input_bytes", "KEY_DERIVATION",
            [operation |-> operation, data_length |-> data_length],
            Iov("TFM_CRYPTO_KEY_DERIVATION_INPUT_BYTES_SID", OpHandle(operation)),
            <<HdrVec, Vec("data", data_length)>>,
            <<HandleVec>>, operation, <<>>))

psa_key_derivation_output_key ==
    /\ pc = "idle"
    /\ \E operation \in Objs :
        ApiCall(Whole("psa_key_derivation_output_key", "KEY_DERIVATION",
            [operation |-> operation],
            Iov("TFM_CRYPTO_KEY_DERIVATION_OUTPUT_KEY_SID", OpHandle(operation)),
            <<HdrVec, Vec("attributes", SIZEOF_psa_key_attributes_t)>>,
            <<HandleVec, Vec("key_id", SIZEOF_psa_key_id_t)>>,
            operation, <<>>))

\* the channel returns: it has written the outputs and the lengths it left;
\* the function stores the lengths through the caller's pointers and returns
\* the status, or traps in a store through a null pointer
ChannelReturn ==
    /\ pc = "in_call"
    /\ ~InvalidCall(call)
    /\ \E channel_status \in ChannelStatus,
          out \in ChannelOut(call.out_vec, call.out_num, 1), h \in Handles :
          LET hw == {i \in HandleIdx(call) : out[i].len # 0}
              o  == UnpackOutcomes(call.lens, out)
          IN  /\ service => ServiceAnswer(call, channel_status, out, h)
              /\ live' = IF service THEN ServiceLive(call, h) ELSE live
              /\ aborts' = IF service /\ call.hobj # NONE
                            THEN [aborts EXCEPT ![call.hobj] =
                                    IF call.fn \notin AbortFns THEN 0
                                    ELSE IF call.iov.op_handle \in live THEN 1
                                    ELSE IF @ > 0 THEN 2 ELSE 0]
                            ELSE aborts
              /\ post' = out
              /\ status' = channel_status
              /\ IF hw # {} /\ call.hobj # NONE
                 THEN /\ handle' = HandleWrite(call, h)
                      /\ served' = [served EXCEPT ![call.hobj] = h]
                 ELSE /\ h = 0
                      /\ UNCHANGED <<handle, served>>
              /\ \E r \in o :
                    /\ lenout' = r.lenout
                    /\ pc' = IF r.fault THEN "fault" ELSE "returned"
                    /\ ret' = IF r.fault THEN NONE
                              ELSE ReturnStatus(call, channel_status)
    /\ run' = IF run.stepwise
              THEN [run EXCEPT !.pc = IF pc' = "fault" THEN "trapped" ELSE "done",
                               !.inflight = @ - 1]
              ELSE run
    /\ UNCHANGED <<build, call, ndispatch, dispatched, service, thread, conn>>

\* the call was invalid and the channel primitive does not return
ChannelNoReturn ==
    /\ pc = "in_call"
    /\ InvalidCall(call)
    /\ pc' = "no_return"
    /\ run' = IF run.stepwise THEN [run EXCEPT !.pc = "no_return"] ELSE run
    /\ UNCHANGED <<build, handle, served, ndispatch, call, dispatched, post, ret,
                   lenout, status, service, live, aborts, thread, conn>>

\* the API function returned: its frame (iov, in_vec, out_vec) is gone and
\* the caller goes on to its next call
Return ==
    /\ pc = "returned"
    /\ pc' = "idle"
    /\ call' = NoCall
    /\ dispatched' = <<>>
    /\ post' = <<>>
    /\ ret' = NONE
    /\ lenout' = <<>>
    /\ status' = NONE
    /\ run' = [RunIdle EXCEPT !.stepwise = run.stepwise]
    /\ UNCHANGED <<build, handle, served, ndispatch, service, live, aborts,
                   thread, conn>>

Init ==
    /\ build \in BuildConfigs
    /\ handle = [o \in Objs |-> 0]
    /\ served = handle
    /\ ndispatch = 0
    /\ pc = "idle"
    /\ call = NoCall
    /\ dispatched = <<>>
    /\ post = <<>>
    /\ ret = NONE
    /\ lenout = <<>>
    /\ status = NONE
    /\ service = FALSE
    /\ live = {}
    /\ aborts = [o \in Objs |-> 0]
    /\ thread = [t \in Threads |-> ThreadIdle]
    /\ conn = FREE
    /\ run = RunIdle

\* the same start, with the crypto service behind the channel
ServiceInit ==
    /\ build \in BuildConfigs
    /\ handle = [o \in Objs |-> 0]
    /\ served = handle
    /\ ndispatch = 0
    /\ pc = "idle"
    /\ call = NoCall
    /\ dispatched = <<>>
    /\ post = <<>>
    /\ ret = NONE
    /\ lenout = <<>>
    /\ status = NONE
    /\ service = TRUE
    /\ live = {}
    /\ aborts = [o \in Objs |-> 0]
    /\ thread = [t \in Threads |-> ThreadIdle]
    /\ conn = FREE
    /\ run = RunIdle

Next ==
    \/ psa_crypto_init
    \/ psa_open_key
    \/ psa_close_key
    \/ psa_import_key
    \/ psa_destroy_key
    \/ psa_get_key_attributes
    \/ psa_reset_key_attributes
    \/ psa_export_key
    \/ psa_export_public_key
    \/ psa_purge_key
    \/ psa_copy_key
    \/ psa_generate_key
    \/ psa_cipher_generate_iv
    \/ psa_cipher_set_iv
    \/ psa_cipher_encrypt_setup
    \/ psa_cipher_decrypt_setup
    \/ psa_cipher_update
    \/ psa_cipher_abort
    \/ psa_cipher_finish
    \/ psa_cipher_encrypt
    \/ psa_cipher_decrypt
    \/ psa_hash_setup
    \/ psa_hash_update
    \/ psa_hash_finish
    \/ psa_hash_verify
    \/ psa_hash_abort
    \/ psa_hash_clone
    \/ psa_hash_compute
    \/ psa_hash_compare
    \/ psa_mac_sign_setup
    \/ psa_mac_verify_setup
    \/ psa_mac_update
    \/ psa_mac_sign_finish
    \/ psa_mac_verify_finish
    \/ psa_mac_abort
    \/ psa_mac_compute
    \/ psa_mac_verify
    \/ psa_aead_encrypt
    \/ psa_aead_decrypt
    \/ psa_aead_encrypt_setup
    \/ psa_aead_decrypt_setup
    \/ psa_aead_generate_nonce
    \/ psa_aead_set_nonce
    \/ psa_aead_set_lengths
    \/ psa_aead_update_ad
    \/ psa_aead_update
    \/ psa_aead_finish
    \/ psa_aead_verify
    \/ psa_aead_abort
    \/ psa_sign_message
    \/ psa_verify_message
    \/ psa_sign_hash
    \/ psa_verify_hash
    \/ psa_asymmetric_encrypt
    \/ psa_asymmetric_decrypt
    \/ psa_key_derivation_get_capacity
    \/ psa_key_derivation_output_bytes
    \/ psa_key_derivation_input_key
    \/ psa_key_derivation_abort
    \/ psa_key_derivation_key_agreement
    \/ psa_generate_random
    \/ psa_raw_key_agreement
    \/ psa_key_derivation_setup
    \/ psa_key_derivation_set_capacity
    \/ psa_key_derivation_input_bytes
    \/ psa_key_derivation_output_key
    \/ ChannelReturn
    \/ ChannelNoReturn
    \/ Return

Spec == Init /\ [][Next]_vars

(***************************************************************************)
(* Two threads of control calling psa_hash_update, each on its own         *)
(* operation object.  A call is two steps: the thread builds its header    *)
(* and descriptors on its own stack and enters the channel, and the        *)
(* channel answers.  In a build without the hash module the function       *)
(* returns PSA_ERROR_NOT_SUPPORTED at once, without entering the channel.  *)
(* The connection behind TFM_CRYPTO_HANDLE handles one request at a time:  *)
(* it takes up a request when it is free, and psa_call on a connection     *)
(* that is already handling a request does not return.  The veneer is a    *)
(* plain function call and has no connection.                              *)
(***************************************************************************)
ThreadCall(t) ==
    /\ thread[t].pc = "idle"
    /\ \E input_length \in Lens :
          LET p == hash_update_frame(Own(t), input_length)
          IN  IF ModuleDisabled("HASH", "ifdef")
              THEN /\ thread' = [thread EXCEPT ![t] =
                                   [ThreadIdle EXCEPT
                                       !.input_length = input_length,
                                       !.ret = PSA_ERROR_NOT_SUPPORTED]]
                   /\ UNCHANGED ndispatch
              ELSE /\ ndispatch < MaxThreadCalls
                   /\ thread' = [thread EXCEPT ![t] =
                                   [pc |-> "in_call",
                                    op_handle |-> p.iov.op_handle,
                                    hobj |-> p.hobj,
                                    input_length |-> input_length,
                                    ret |-> NONE]]
                   /\ ndispatch' = ndispatch + 1
    /\ UNCHANGED <<build, handle, served, pc, call, dispatched, post, ret,
                   lenout, status, service, live, aborts, conn, run>>

\* the connection is free and takes up the request of thread t
ChannelTake(t) ==
    /\ build.psa_api
    /\ thread[t].pc = "in_call"
    /\ conn = FREE
    /\ conn' = t
    /\ UNCHANGED <<build, handle, served, ndispatch, pc, call, dispatched, post,
                   ret, lenout, status, service, live, aborts, thread, run>>

\* the connection is already handling the request of the other thread:
\* the call of thread t is invalid and psa_call does not return
ChannelBusy(t) ==
    /\ build.psa_api
    /\ thread[t].pc = "in_call"
    /\ conn \notin {FREE, t}
    /\ thread' = [thread EXCEPT ![t].pc = "no_return"]
    /\ UNCHANGED <<build, handle, served, ndispatch, pc, call, dispatched, post,
                   ret, lenout, status, service, live, aborts, conn, run>>

\* the request of thread t is answered: the channel may store a handle
\* through the output descriptor of the request, and the call returns the
\* status
ThreadReply(t) ==
    /\ thread[t].pc = "in_call"
    /\ build.psa_api => conn = t
    /\ \E channel_status \in ChannelStatus :
          thread' = [thread EXCEPT ![t] =
                        [ThreadIdle EXCEPT !.input_length = thread[t].input_length,
                                           !.ret = channel_status]]
    /\ conn' = IF build.psa_api THEN FREE ELSE conn
    /\ \E h \in Handles, written \in BOOLEAN :
          IF written
          THEN /\ handle' = [handle EXCEPT ![thread[t].hobj] = h]
               /\ served' = [served EXCEPT ![thread[t].hobj] = h]
          ELSE /\ h = 0
               /\ UNCHANGED <<handle, served>>
    /\ UNCHANGED <<build, ndispatch, pc, call, dispatched, post, ret, lenout,
                   status, service, live, aborts, run>>

ThreadsNext ==
    \E t \in Threads :
        \/ ThreadCall(t)
        \/ ChannelTake(t)
        \/ ChannelBusy(t)
        \/ ThreadReply(t)

SpecThreads == Init /\ [][ThreadsNext]_vars

SpecService == ServiceInit /\ [][Next]_vars

(***************************************************************************)
(* One API call taken statement by statement, for every API function: the  *)
(* caller enters the function (RunEnter), the module switch and the local  *)
(* checks are passed or return (RunChecks), psa_aead_encrypt and           *)
(* psa_aead_decrypt copy the nonce one byte per iteration (RunCopy), the   *)
(* request is handed to the channel (RunDispatch) and the channel returns, *)
(* after which the function stores the lengths and returns                 *)
(* (ChannelReturn); a store through a null pointer may trap, and then the  *)
(* function does not return.  The caller is a single thread of control;    *)
(* the request is in flight between RunDispatch and ChannelReturn.         *)
(***************************************************************************)
RunAead(fn) == fn \in {"psa_aead_encrypt", "psa_aead_decrypt"}

\* the module switch, the header initialiser and the local checks
RunChecks ==
    /\ run.pc = "entry"
    /\ IF call.module # NONE /\ ModuleDisabled(call.module, call.guard)
       THEN /\ LocalReturn(call, PSA_ERROR_NOT_SUPPORTED)
            /\ run' = [run EXCEPT !.pc = "done"]
       ELSE IF call.check # PASS
            THEN /\ LocalReturn(call, call.check)
                 /\ run' = [run EXCEPT !.pc = "done"]
            ELSE /\ run' = [run EXCEPT
                               !.pc = IF RunAead(call.fn) /\ call.args.nonce # NULL
                                      THEN "copy" ELSE "call",
                               !.iov = IF RunAead(call.fn)
                                       THEN Iov(call.iov.srv_id, 0)
                                       ELSE call.iov]
                 /\ UNCHANGED <<pc, handle, served, ndispatch, dispatched, post,
                                ret, lenout, status, live, aborts>>
    /\ UNCHANGED <<build, call, service, thread, conn>>

\* for (size_t idx = 0; idx < nonce_length; idx++)
\*     iov.aead_in.nonce[idx] = nonce[idx];
\* iov.aead_in.nonce_length = nonce_length;
RunCopy ==
    /\ run.pc = "copy"
    /\ IF run.idx < call.args.nonce_length
       THEN run' = [run EXCEPT
                      !.iov.nonce[run.idx + 1] = CallerByte(run.idx),
                      !.idx = @ + 1,
                      !.iters = @ + 1]
       ELSE run' = [run EXCEPT
                      !.iov.nonce_length = call.args.nonce_length,
                      !.pc = "call"]
    /\ UNCHANGED <<build, handle, served, ndispatch, pc, call, dispatched, post,
                   ret, lenout, status, service, live, aborts, thread, conn>>

\* the request is handed to the channel
RunDispatch ==
    /\ run.pc = "call"
    /\ Dispatch(call)
    /\ run' = [run EXCEPT !.pc = "in_flight",
                          !.inflight = @ + 1,
                          !.calls = @ + 1]
    /\ UNCHANGED <<build, call, service, thread, conn>>

RunNext ==
    \/ Next
    \/ RunChecks
    \/ RunCopy
    \/ RunDispatch

\* the thread of control runs on once it is inside the function, and the
\* channel primitive returns unless the call is invalid
RunFairness ==
    /\ WF_vars(RunChecks)
    /\ WF_vars(RunCopy)
    /\ WF_vars(RunDispatch)
    /\ WF_vars(ChannelReturn)
    /\ WF_vars(ChannelNoReturn)

\* the start of Init, with calls taken statement by statement
RunInit ==
    /\ build \in BuildConfigs
    /\ handle = [o \in Objs |-> 0]
    /\ served = handle
    /\ ndispatch = 0
    /\ pc = "idle"
    /\ call = NoCall
    /\ dispatched = <<>>
    /\ post = <<>>
    /\ ret = NONE
    /\ lenout = <<>>
    /\ status = NONE
    /\ service = FALSE
    /\ live = {}
    /\ aborts = [o \in Objs |-> 0]
    /\ thread = [t \in Threads |-> ThreadIdle]
    /\ conn = FREE
    /\ run = [RunIdle EXCEPT !.stepwise = TRUE]

SpecRun == RunInit /\ [][RunNext]_vars /\ RunFairness

(***************************************************************************)
(* Properties.                                                             *)
(***************************************************************************)
Returned == pc = "returned"

\* the API call just returned went through the channel
Dispatched == Len(dispatched) = 1

\* the module of the call is compiled in
Enabled(c) == c.module # NONE /\ ~ModuleDisabled(c.module, c.guard)

\* the API functions that take an operation-state object
StreamingFns ==
    {"psa_cipher_generate_iv", "psa_cipher_set_iv", "psa_cipher_encrypt_setup",
     "psa_cipher_decrypt_setup", "psa_cipher_update", "psa_cipher_abort",
     "psa_cipher_finish",
     "psa_hash_setup", "psa_hash_update", "psa_hash_finish", "psa_hash_verify",
     "psa_hash_abort", "psa_hash_clone",
     "psa_mac_sign_setup", "psa_mac_verify_setup", "psa_mac_update",
     "psa_mac_sign_finish", "psa_mac_verify_finish", "psa_mac_abort",
     "psa_aead_encrypt_setup", "psa_aead_decrypt_setup",
     "psa_aead_generate_nonce", "psa_aead_set_nonce", "psa_aead_set_lengths",
     "psa_aead_update_ad", "psa_aead_update", "psa_aead_finish",
     "psa_aead_verify", "psa_aead_abort",
     "psa_key_derivation_get_capacity", "psa_key_derivation_output_bytes",
     "psa_key_derivation_input_key", "psa_key_derivation_abort",
     "psa_key_derivation_key_agreement", "psa_key_derivation_setup",
     "psa_key_derivation_set_capacity", "psa_key_derivation_input_bytes",
     "psa_key_derivation_output_key"}

\* the object whose handle the header of call c carries
HeaderObj(c) ==
    IF c.fn = "psa_hash_clone" THEN c.args.source_operation
    ELSE c.args.operation

\* C1: every dispatch made for an operation-state object carries in the
\* header's op_handle the value the channel last left in that object's handle
\* descriptor, or the object's initial value if the channel never wrote it.
C1_HandleThreaded ==
    [][(Len(dispatched') = 1 /\ call'.fn \in StreamingFns /\ pc = "idle")
        => call'.iov.op_handle = served[HeaderObj(call')]]_vars

\* a second dispatch carries the non-zero handle the first one was given
C1_Witness ==
    /\ Returned /\ Dispatched
    /\ call.fn = "psa_cipher_update"
    /\ ndispatch = 2
    /\ call.iov.op_handle # 0
    /\ call.iov.op_handle = MaxHandle

\* C2: in every dispatch the number of input descriptors plus the number of
\* output descriptors is at most PSA_MAX_IOVEC, in both bindings.
C2_DescriptorBudget ==
    \A i \in 1..Len(dispatched) :
        /\ dispatched[i].in_num + dispatched[i].out_num <= PSA_MAX_IOVEC
        /\ Len(dispatched[i].in_vec) = dispatched[i].in_num
        /\ Len(dispatched[i].out_vec) = dispatched[i].out_num

\* psa_aead_encrypt with additional data uses three input descriptors and
\* one output descriptor
C2_Witness ==
    /\ Returned /\ Dispatched
    /\ call.fn = "psa_aead_encrypt"
    /\ dispatched[1].in_num + dispatched[1].out_num = PSA_MAX_IOVEC

\* the optional parameter of call c: its vector, its reference and length
OptionalFns ==
    {"psa_aead_encrypt", "psa_aead_decrypt", "psa_aead_update_ad",
     "psa_aead_update", "psa_aead_finish", "psa_aead_verify",
     "psa_asymmetric_encrypt", "psa_asymmetric_decrypt"}

OptionalIsOutput(c) == c.fn \in {"psa_aead_finish", "psa_aead_verify"}

OptionalRef(c) ==
    CASE c.fn \in {"psa_aead_encrypt", "psa_aead_decrypt"} -> c.args.additional_data
      [] c.fn \in {"psa_aead_update_ad", "psa_aead_update"} -> c.args.input
      [] c.fn = "psa_aead_finish" -> c.args.ciphertext
      [] c.fn = "psa_aead_verify" -> c.args.plaintext
      [] OTHER -> c.args.salt

OptionalLen(c) ==
    CASE c.fn \in {"psa_aead_encrypt", "psa_aead_decrypt"} -> c.args.additional_data_length
      [] c.fn \in {"psa_aead_update_ad", "psa_aead_update"} -> c.args.input_length
      [] c.fn = "psa_aead_finish" -> c.args.ciphertext_size
      [] c.fn = "psa_aead_verify" -> c.args.plaintext_size
      [] OTHER -> c.args.salt_length

\* the declared array holding the optional descriptor, and what of it went
\* to the channel
OptionalDeclared(c) == IF OptionalIsOutput(c) THEN c.out_vec ELSE c.in_vec
OptionalPassed(c, d) == IF OptionalIsOutput(c) THEN d.out_vec ELSE d.in_vec

NoNullDescriptor(d) ==
    /\ \A i \in 1..Len(d.in_vec) : d.in_vec[i].base # NULL
    /\ \A i \in 1..Len(d.out_vec) : d.out_vec[i].base # NULL

\* C3: with the optional parameter null the dispatch has exactly one
\* descriptor fewer than with it present, the one removed is the last of its
\* vector, the others are as declared, and no descriptor with a null
\* reference is dispatched; with the parameter present the whole vector goes.
C3_OptionalTrimmed ==
    (Dispatched /\ call.fn \in OptionalFns) =>
        LET d == dispatched[1]
            full == OptionalDeclared(call)
            passed == OptionalPassed(call, d)
        IN  IF OptionalRef(call) = NULL
            THEN /\ passed = SubSeq(full, 1, Len(full) - 1)
                 /\ NoNullDescriptor(d)
            ELSE passed = full

\* C4: a null optional reference with a non-zero length makes the call
\* return PSA_ERROR_INVALID_ARGUMENT without a dispatch and before any
\* descriptor array is set up (in a build that has the module).
C4_NullWithLength ==
    (Returned /\ call.fn \in OptionalFns /\ Enabled(call)
       /\ OptionalRef(call) = NULL /\ OptionalLen(call) # 0) =>
        /\ ret = PSA_ERROR_INVALID_ARGUMENT
        /\ dispatched = <<>>
        /\ call.in_num = 0 /\ call.out_num = 0
        /\ call.in_vec = <<>> /\ call.out_vec = <<>>

C4_Witness ==
    /\ Returned
    /\ call.fn = "psa_aead_finish"
    /\ Enabled(call)
    /\ call.args.ciphertext = NULL
    /\ call.args.ciphertext_size # 0
    /\ ret = PSA_ERROR_INVALID_ARGUMENT
    /\ ndispatch = 0

\* C5: psa_aead_encrypt and psa_aead_decrypt with a nonce length above
\* TFM_CRYPTO_MAX_NONCE_LENGTH return PSA_ERROR_INVALID_ARGUMENT without a
\* dispatch and leave the header's nonce field as initialised, whether or
\* not the nonce reference is null (in a build that has the module).
C5_NonceTooLong ==
    (Returned /\ call.fn \in {"psa_aead_encrypt", "psa_aead_decrypt"}
       /\ Enabled(call)
       /\ call.args.nonce_length > TFM_CRYPTO_MAX_NONCE_LENGTH) =>
        /\ ret = PSA_ERROR_INVALID_ARGUMENT
        /\ dispatched = <<>>
        /\ call.iov.nonce = ZeroNonce
        /\ call.iov.nonce_length = 0

C5_Witness ==
    /\ Returned
    /\ call.fn = "psa_aead_decrypt"
    /\ Enabled(call)
    /\ call.args.nonce # NULL
    /\ call.args.nonce_length = TFM_CRYPTO_MAX_NONCE_LENGTH + 1
    /\ call.args.additional_data # NULL
    /\ ret = PSA_ERROR_INVALID_ARGUMENT
    /\ dispatched = <<>>

\* C6: psa_hash_clone with a target object whose handle is not 0 returns
\* PSA_ERROR_BAD_STATE and leaves the dispatch count and both handles as
\* they were, whatever the state of the source object (in a build that has
\* the module).
C6_CloneTargetInUse ==
    [][(pc = "idle" /\ call'.fn = "psa_hash_clone"
          /\ ~ModuleDisabled("HASH", "ifdef")
          /\ call'.args.target_operation # NULL
          /\ handle[call'.args.target_operation] # 0)
        => /\ ret' = PSA_ERROR_BAD_STATE
           /\ ndispatch' = ndispatch
           /\ dispatched' = <<>>
           /\ handle' = handle]_vars

\* a clone into an object the channel gave a handle, from a source the
\* channel also gave one, after a dispatch has been counted
C6_Witness ==
    /\ Returned
    /\ call.fn = "psa_hash_clone"
    /\ Enabled(call)
    /\ call.args.target_operation # NULL
    /\ call.args.target_operation # call.args.source_operation
    /\ handle[call.args.target_operation] # 0
    /\ handle[call.args.source_operation] # 0
    /\ ret = PSA_ERROR_BAD_STATE
    /\ dispatched = <<>>
    /\ ndispatch = MaxDispatch

\* C7, as stated: psa_generate_random with a requested size of 0 returns
\* PSA_SUCCESS without a dispatch for every output reference and every
\* build configuration.
C7_ZeroSizeAnyBuild ==
    (Returned /\ call.fn = "psa_generate_random" /\ call.args.output_size = 0) =>
        /\ ret = PSA_SUCCESS
        /\ dispatched = <<>>

\* C7: psa_generate_random with a requested size of 0 makes no dispatch for
\* every output reference, in both bindings; it returns PSA_SUCCESS where
\* TFM_CRYPTO_RNG_MODULE_DISABLED is not defined and PSA_ERROR_NOT_SUPPORTED
\* where it is.
C7_ZeroSize ==
    (Returned /\ call.fn = "psa_generate_random" /\ call.args.output_size = 0) =>
        /\ dispatched = <<>>
        /\ ret = IF Enabled(call) THEN PSA_SUCCESS ELSE PSA_ERROR_NOT_SUPPORTED

C7_Witness ==
    /\ Returned
    /\ call.fn = "psa_generate_random"
    /\ call.args.output_size = 0
    /\ call.args.output = NULL
    /\ ~build.psa_api
    /\ Enabled(call)
    /\ ret = PSA_SUCCESS
    /\ dispatched = <<>>

\* C8: when the channel returned a status other than PSA_SUCCESS, no length
\* found in an output descriptor is copied to a caller's *_length parameter.
C8_NoLengthOnFailure ==
    (Returned /\ Dispatched /\ ret # PSA_SUCCESS /\ ret # VOID) =>
        \A i \in 1..Len(lenout) : ~lenout[i].copied

\* the capacity the caller supplied for the buffer whose length is reported
\* through ptr
Capacity(c, ptr) ==
    CASE ptr = "data_length" -> c.args.data_size
      [] ptr = "iv_length" -> c.args.iv_size
      [] ptr = "output_length" -> c.args.output_size
      [] ptr = "hash_length" -> c.args.hash_size
      [] ptr = "mac_length" -> c.args.mac_size
      [] ptr = "nonce_length" -> c.args.nonce_size
      [] ptr = "tag_length" -> c.args.tag_size
      [] ptr = "signature_length" -> c.args.signature_size
      [] ptr = "ciphertext_length" -> c.args.ciphertext_size
      [] OTHER -> c.args.plaintext_size

\* C9: on PSA_SUCCESS every length reported to the caller is at most the
\* capacity the caller supplied for that buffer, given a channel that leaves
\* in a descriptor only the number of bytes written into it.
C9_LengthWithinCapacity ==
    (Returned /\ Dispatched /\ ret = PSA_SUCCESS) =>
        \A i \in 1..Len(lenout) : lenout[i].val <= Capacity(call, lenout[i].ptr)

\* a full buffer behind a handle descriptor is reported with its capacity
C9_Witness ==
    /\ Returned /\ Dispatched
    /\ ret = PSA_SUCCESS
    /\ call.fn = "psa_aead_finish"
    /\ Len(lenout) = 2
    /\ lenout[1].ptr = "ciphertext_length"
    /\ lenout[1].val = call.args.ciphertext_size
    /\ lenout[1].val = MaxLen
    /\ lenout[2].ptr = "tag_length"
    /\ lenout[2].val = MaxLen

\* the optional output descriptor of psa_aead_finish/psa_aead_verify was
\* declared but not handed to the channel
Elided == Dispatched /\ dispatched[1].out_num < Len(call.out_vec)

OptionalLengthPtr(c) ==
    IF c.fn = "psa_aead_finish" THEN c.args.ciphertext_length
    ELSE c.args.plaintext_length

\* C10: whenever psa_aead_finish or psa_aead_verify elide the optional
\* output descriptor, the caller's length for that output is written as 0,
\* whatever the channel left and whatever status it returned.
C10_ElidedLengthZero ==
    (Returned /\ call.fn \in {"psa_aead_finish", "psa_aead_verify"} /\ Elided
       /\ OptionalLengthPtr(call) # NULL) =>
        \E i \in 1..Len(lenout) :
            /\ lenout[i].ptr = OptionalLengthPtr(call)
            /\ lenout[i].val = 0
            /\ ~lenout[i].copied

C10_Witness ==
    /\ Returned
    /\ call.fn = "psa_aead_verify"
    /\ Elided
    /\ call.args.plaintext = NULL
    /\ lenout = <<[ptr |-> "plaintext_length", val |-> 0, copied |-> FALSE]>>
    /\ ret = PSA_SUCCESS

\* the descriptor counts binding psa_api hands over for call c, computed as
\* the function computes them
BindingCounts(psa_api, c) ==
    IF c.fn \notin OptionalFns
    THEN <<ARRAY_SIZE(c.in_vec), ARRAY_SIZE(c.out_vec)>>
    ELSE IF OptionalIsOutput(c)
         THEN <<ARRAY_SIZE(c.in_vec),
                BindingOutLen(psa_api, c.out_vec, OptionalRef(c), OptionalLen(c))>>
         ELSE <<BindingInLen(psa_api, c.in_vec, OptionalRef(c)),
                ARRAY_SIZE(c.out_vec)>>

\* C11: the numbered-call binding (TFM_PSA_API) and the direct-call binding
\* (veneer) hand the channel the same descriptor counts and contents for
\* every operation and every argument combination.
C11_BindingsAgree ==
    Dispatched =>
        /\ <<dispatched[1].in_num, dispatched[1].out_num>>
              = BindingCounts(build.psa_api, call)
        /\ BindingCounts(TRUE, call) = BindingCounts(FALSE, call)

\* TFM_CRYPTO_<M>_MODULE_DISABLED is defined non-zero for the module of c
SwitchedOff(c) ==
    c.module # NONE /\ build.module_disabled[c.module] = "nonzero"

\* C12: with the module of its family disabled, every operation returns
\* PSA_ERROR_NOT_SUPPORTED, makes no dispatch and writes no caller
\* out-parameter.
C12_DisabledNotSupported ==
    (Returned /\ call.fn # NONE /\ SwitchedOff(call)) =>
        /\ ret = PSA_ERROR_NOT_SUPPORTED
        /\ dispatched = <<>>
        /\ lenout = <<>>

\* the call passed the module switch and the local checks of its function
PassedLocalChecks(c) == Enabled(c) /\ c.check = PASS

\* C13, as stated: every API call that passes its local checks makes one
\* dispatch and returns exactly the status the channel returned.
C13_EveryCallReturnsChannelStatus ==
    (pc \in {"returned", "fault", "no_return"} /\ call.fn # NONE
       /\ (call.fn = "psa_crypto_init" \/ PassedLocalChecks(call))) =>
        /\ Dispatched
        /\ pc = "returned"
        /\ ret = status

\* a channel-level error comes back as it is
C13_Witness ==
    /\ Returned /\ Dispatched
    /\ call.fn = "psa_mac_update"
    /\ status = PSA_ERROR_CONNECTION_BUSY
    /\ ret = PSA_ERROR_CONNECTION_BUSY
    /\ ndispatch = 1

\* C15: every call of a streaming operation that succeeds hands the channel
\* a descriptor for the object's handle, so that the handle the service
\* assigned in that call reaches the operation object.
C15_HandleReceived ==
    (Returned /\ Dispatched /\ status = PSA_SUCCESS /\ call.fn \in StreamingFns
       /\ (call.fn = "psa_hash_clone" => call.args.target_operation # NULL)) =>
        /\ call.hobj # NONE
        /\ \E i \in 1..dispatched[1].out_num :
              dispatched[1].out_vec[i].base \in HandleBases

\* the oneshot, stateless operations
OneshotFns ==
    {"psa_hash_compute", "psa_mac_compute", "psa_cipher_encrypt",
     "psa_cipher_decrypt", "psa_sign_hash", "psa_sign_message",
     "psa_verify_hash", "psa_verify_message", "psa_asymmetric_encrypt",
     "psa_asymmetric_decrypt", "psa_raw_key_agreement"}

\* C16: a oneshot operation that passes its local checks (module compiled
\* in, optional salt well-formed) makes exactly one dispatch with header
\* op_handle 0 and no handle output descriptor, and writes no handle;
\* psa_hash_compute dispatches the header and the message, one output
\* descriptor of capacity hash_size, and reports the length the channel left
\* in that descriptor.
C16_OneshotShape ==
    [][/\ (pc = "in_call" /\ pc' # "in_call" /\ call.fn \in OneshotFns)
          => /\ pc' = "returned"
             /\ call' = call
             /\ ndispatch' = ndispatch
             /\ dispatched' = dispatched
             /\ handle' = handle
             /\ call.fn = "psa_hash_compute" =>
                   lenout' = <<[ptr |-> "hash_length", val |-> post'[1].len,
                                copied |-> TRUE]>>
       /\ (pc = "idle" /\ pc' # "idle" /\ call'.fn \in OneshotFns
          /\ PassedLocalChecks(call'))
        => /\ pc' = "in_call"
           /\ ndispatch' = ndispatch + 1
           /\ Len(dispatched') = 1
           /\ call'.iov.op_handle = 0
           /\ \A i \in 1..Len(dispatched'[1].out_vec) :
                 dispatched'[1].out_vec[i].base \notin HandleBases
           /\ handle' = handle
           /\ call'.fn = "psa_hash_compute" =>
                 /\ dispatched'[1].in_num = 2
                 /\ dispatched'[1].in_vec
                       = <<Vec("&iov", SIZEOF_tfm_crypto_pack_iovec),
                           Vec("input", call'.args.input_length)>>
                 /\ dispatched'[1].out_num = 1
                 /\ dispatched'[1].out_vec = <<Vec("hash", call'.args.hash_size)>>]_vars

\* a digest into a full buffer, reported with the length the channel left
C16_Witness ==
    /\ Returned /\ Dispatched
    /\ call.fn = "psa_hash_compute"
    /\ status = PSA_SUCCESS
    /\ call.args.hash_size = MaxLen
    /\ post[1].len = MaxLen
    /\ lenout[1].val = MaxLen

\* the argument of call c that holds the capacity of the buffer whose length
\* is reported through ptr
CapacityField(ptr) ==
    CASE ptr = "data_length" -> "data_size"
      [] ptr = "iv_length" -> "iv_size"
      [] ptr = "output_length" -> "output_size"
      [] ptr = "hash_length" -> "hash_size"
      [] ptr = "mac_length" -> "mac_size"
      [] ptr = "nonce_length" -> "nonce_size"
      [] ptr = "tag_length" -> "tag_size"
      [] ptr = "signature_length" -> "signature_size"
      [] ptr = "ciphertext_length" -> "ciphertext_size"
      [] OTHER -> "plaintext_size"

\* the operation object call c may have its handle written in
WrittenObj(c) ==
    IF c.fn = "psa_hash_clone" THEN c.args.target_operation
    ELSE c.args.operation

\* C18: a call writes only the handle of the operation object it was given
\* (the target of psa_hash_clone) and the *_length out-parameters of that
\* call; the handle of every other object is unchanged by every step.
C18_Frame ==
    [][/\ \A o \in Objs :
             handle'[o] # handle[o] =>
                /\ pc = "in_call" /\ Len(dispatched') = 1
                /\ call' = call
                /\ call'.fn \in StreamingFns
                /\ o = WrittenObj(call')
       /\ \A i \in 1..Len(lenout') :
             CapacityField(lenout'[i].ptr) \in DOMAIN call'.args]_vars

\* opA's handle was rewritten while opB kept the handle it had
C18_Witness ==
    /\ Returned /\ Dispatched
    /\ call.fn = "psa_hash_update"
    /\ call.args.operation = "opA"
    /\ ndispatch = 2
    /\ handle["opA"] = 2
    /\ handle["opB"] = 1

\* the index (from 1) in out_vec of the data descriptor whose length is
\* reported through ptr, and the buffer behind it
DataIdx(c, ptr) ==
    IF c.fn \in StreamingFns
    THEN IF c.fn = "psa_aead_finish" /\ ptr = "ciphertext_length" THEN 3 ELSE 2
    ELSE 1

Buffer(ptr) ==
    CASE ptr = "data_length" -> "data"
      [] ptr = "iv_length" -> "iv"
      [] ptr = "output_length" -> "output"
      [] ptr = "hash_length" -> "hash"
      [] ptr = "mac_length" -> "mac"
      [] ptr = "nonce_length" -> "nonce"
      [] ptr = "tag_length" -> "tag"
      [] ptr = "signature_length" -> "signature"
      [] ptr = "ciphertext_length" -> "ciphertext"
      [] OTHER -> "plaintext"

\* C19: the value written to a *_length out-parameter is the length the data
\* output descriptor of that buffer has after the dispatch: out_vec[0] for a
\* oneshot operation, out_vec[1] for a streaming operation, out_vec[1] (tag)
\* and out_vec[2] (ciphertext) for psa_aead_finish; never the handle
\* descriptor's or another buffer's.
C19_LengthFromOwnDescriptor ==
    (Returned /\ Dispatched) =>
        \A i \in 1..Len(lenout) :
            LET d == DataIdx(call, lenout[i].ptr)
            IN  /\ d <= Len(post)
                /\ post[d].base \in {Buffer(lenout[i].ptr), NULL}
                /\ post[d].base \notin HandleBases
                /\ lenout[i].val = post[d].len

\* psa_aead_finish reports two different lengths, each from its descriptor
C19_Witness ==
    /\ Returned /\ Dispatched
    /\ call.fn = "psa_aead_finish"
    /\ post[1].len = SIZEOF_uint32_t
    /\ post[2] = Vec("tag", 0)
    /\ post[3] = Vec("ciphertext", 1)
    /\ lenout = <<[ptr |-> "ciphertext_length", val |-> 1, copied |-> TRUE],
                  [ptr |-> "tag_length", val |-> 0, copied |-> TRUE]>>

AeadOneshotFns == {"psa_aead_encrypt", "psa_aead_decrypt"}

\* C20: psa_aead_encrypt and psa_aead_decrypt with nonce_length at most
\* TFM_CRYPTO_MAX_NONCE_LENGTH: with a non-null nonce the header holds the
\* first nonce_length bytes of the caller's nonce followed by zeros, and
\* nonce_length; with a null nonce it holds zeros and length 0 whatever
\* nonce_length was passed, and the call is dispatched all the same.
C20_InlineNonce ==
    /\ (Dispatched /\ call.fn \in AeadOneshotFns) =>
          /\ call.args.nonce_length <= TFM_CRYPTO_MAX_NONCE_LENGTH
          /\ IF call.args.nonce # NULL
             THEN /\ call.iov.nonce_length = call.args.nonce_length
                  /\ \A i \in 1..TFM_CRYPTO_MAX_NONCE_LENGTH :
                        call.iov.nonce[i] = IF i <= call.args.nonce_length
                                            THEN CallerByte(i - 1) ELSE 0
             ELSE /\ call.iov.nonce_length = 0
                  /\ call.iov.nonce = ZeroNonce
    /\ (Returned /\ call.fn \in AeadOneshotFns /\ Enabled(call)
          /\ call.args.nonce_length <= TFM_CRYPTO_MAX_NONCE_LENGTH
          /\ ~(call.args.additional_data = NULL
                 /\ call.args.additional_data_length # 0)) =>
          Dispatched

\* a null nonce with the largest length allowed goes out as zeros, length 0
C20_Witness ==
    /\ Returned /\ Dispatched
    /\ call.fn = "psa_aead_decrypt"
    /\ call.args.nonce = NULL
    /\ call.args.nonce_length = TFM_CRYPTO_MAX_NONCE_LENGTH
    /\ call.iov.nonce_length = 0
    /\ call.iov.nonce = ZeroNonce

C17_ActiveWitness ==
    /\ service
    /\ Returned /\ Dispatched
    /\ call.fn = "psa_key_derivation_abort"
    /\ call.iov.op_handle # 0
    /\ call.iov.op_handle \notin live
    /\ live # {}
    /\ aborts[call.args.operation] = 1
    /\ ret = PSA_SUCCESS

C14_HandleThreading ==
    [][\A t \in Threads :
          /\ thread'[t].pc \in {"in_call", "no_return"} =>
                /\ thread'[t].hobj = Own(t)
                /\ thread'[t].op_handle = handle'[Own(t)]
                /\ thread'[t].op_handle = served'[Own(t)]
          /\ thread'[t] = thread[t] =>
                /\ handle'[Own(t)] = handle[Own(t)]
                /\ served'[Own(t)] = served[Own(t)]
          /\ (thread[t].pc = "in_call" /\ thread'[t].pc = "idle") =>
                /\ build.psa_api => conn = t
                /\ thread'[t].ret \in ChannelStatus]_vars

\* both threads are inside the channel at once, each with the handle of its
\* own operation, and the connection is handling the request of t1
C14_Witness ==
    /\ build.psa_api
    /\ thread["t1"].pc = "in_call" /\ thread["t2"].pc = "in_call"
    /\ conn = "t1"
    /\ thread["t1"].op_handle = 1 /\ handle["opA"] = 1
    /\ thread["t2"].op_handle = 2 /\ handle["opB"] = 2

\* the status of the argument checks of call c, computed from its arguments
\* and the build alone
ArgCheck(c) ==
    CASE c.fn = "psa_crypto_init" -> PSA_SUCCESS
      [] c.fn = "psa_generate_random" ->
            IF c.args.output_size = 0 THEN PSA_SUCCESS ELSE PASS
      [] c.fn \in AeadOneshotFns ->
            IF OptionalRef(c) = NULL /\ OptionalLen(c) # 0
            THEN PSA_ERROR_INVALID_ARGUMENT
            ELSE IF c.args.nonce_length > TFM_CRYPTO_MAX_NONCE_LENGTH
                 THEN PSA_ERROR_INVALID_ARGUMENT ELSE PASS
      [] c.fn \in {"psa_aead_finish", "psa_aead_verify"} ->
            IF OptionalRef(c) = NULL /\ OptionalLen(c) # 0
            THEN PSA_ERROR_INVALID_ARGUMENT
            ELSE IF build.psa_api /\ OptionalRef(c) # NULL /\ OptionalLen(c) # 0
                    /\ OptionalLengthPtr(c) = NULL
                 THEN PSA_ERROR_INVALID_ARGUMENT ELSE PASS
      [] c.fn \in OptionalFns ->
            IF OptionalRef(c) = NULL /\ OptionalLen(c) # 0
            THEN PSA_ERROR_INVALID_ARGUMENT ELSE PASS
      [] OTHER -> PASS

\* the calls that continue or end a streaming operation
StepFns == StreamingFns \ SetupFns

\* C21: a call that continues or ends a streaming operation (update, finish,
\* verify, abort, input, output, ...) and whose arguments pass the argument
\* checks is dispatched exactly once with the handle the object holds,
\* whatever that handle is (0 included), and returns the status of the
\* channel: no state of the object is refused locally.
C21_NoLocalStateMachine ==
    [][/\ (pc = "idle" /\ pc' # "idle" /\ call'.fn \in StepFns /\ Enabled(call')
          /\ ArgCheck(call') = PASS)
        => /\ pc' = "in_call"
           /\ ndispatch' = ndispatch + 1
           /\ Len(dispatched') = 1
           /\ call'.iov.op_handle = handle[call'.args.operation]
       /\ (pc = "in_call" /\ pc' = "returned" /\ call.fn \in StepFns)
        => /\ call' = call
           /\ ndispatch' = ndispatch
           /\ ret' = status'
           /\ status' \in ChannelStatus]_vars

\* a finish on an object without an operation, after an earlier dispatch,
\* went to the service and its state error came back
C21_Witness ==
    /\ Returned /\ Dispatched
    /\ call.fn = "psa_cipher_finish"
    /\ call.iov.op_handle = 0
    /\ ndispatch = 2
    /\ status = PSA_ERROR_BAD_STATE
    /\ ret = PSA_ERROR_BAD_STATE

\* the *_setup functions
PlainSetupFns == SetupFns \ {"psa_hash_clone"}

\* C22: every *_setup call, in a build that has its module, is dispatched
\* exactly once without a local check, and the header's op_handle is the
\* value the operation object holds at the call, zero or not.
C22_SetupForwardsHandle ==
    [][(pc = "idle" /\ pc' # "idle" /\ call'.fn \in PlainSetupFns
          /\ Enabled(call'))
        => /\ call'.check = PASS
           /\ ndispatch' = ndispatch + 1
           /\ Len(dispatched') = 1
           /\ dispatched'[1].in_vec = <<HdrVec>>
           /\ call'.iov.op_handle = handle[call'.args.operation]]_vars

\* a setup on an object that already holds a handle goes out with it
C22_Witness ==
    /\ Returned /\ Dispatched
    /\ call.fn = "psa_key_derivation_setup"
    /\ call.iov.op_handle = MaxHandle
    /\ call.iov.op_handle # 0
    /\ served[call.args.operation] # 0

\* the statuses of the local checks that reject a call
RejectStatus == {PSA_ERROR_INVALID_ARGUMENT, PSA_ERROR_BAD_STATE}

\* the verdict of the local checks on call c, computed from its arguments,
\* the handle inside the object passed as the target of psa_hash_clone, and
\* the build
LocalVerdict(c) ==
    IF ~Enabled(c) /\ c.module # NONE THEN PSA_ERROR_NOT_SUPPORTED
    ELSE IF ArgCheck(c) # PASS THEN ArgCheck(c)
    ELSE IF c.fn = "psa_hash_clone" /\ c.args.target_operation # NULL
              /\ handle[c.args.target_operation] # 0
         THEN PSA_ERROR_BAD_STATE
    ELSE PASS

\* C23: a call rejected by a local check (in a build that has the module)
\* returns the status of that check and leaves the caller's state as it
\* was: no *_length out-parameter is written, nothing is handed to the
\* channel, so no output buffer can be written, and every operation
\* object keeps its handle.
C23_RejectedCallChangesNothing ==
    [][(pc = "idle" /\ pc' # "idle" /\ LocalVerdict(call') \in RejectStatus)
        => /\ pc' = "returned"
           /\ ret' = LocalVerdict(call')
           /\ lenout' = <<>>
           /\ dispatched' = <<>>
           /\ post' = <<>>
           /\ ndispatch' = ndispatch
           /\ handle' = handle
           /\ served' = served]_vars

\* psa_aead_update rejected on an object that holds a handle, while the
\* other object holds another
C23_Witness ==
    /\ Returned
    /\ call.fn = "psa_aead_update"
    /\ Enabled(call)
    /\ call.args.input = NULL /\ call.args.input_length # 0
    /\ ret = PSA_ERROR_INVALID_ARGUMENT
    /\ lenout = <<>>
    /\ handle[call.args.operation] = 1
    /\ \E o \in Objs : handle[o] = 2

AeadEndFns == {"psa_aead_finish", "psa_aead_verify"}

\* C24: psa_aead_finish and psa_aead_verify called with a null
\* ciphertext_length/plaintext_length pointer return
\* PSA_ERROR_INVALID_ARGUMENT without a dispatch, for every output reference
\* and capacity, and never store a length through the null pointer.
C24_NullLengthRejected ==
    (pc # "idle" /\ call.fn \in AeadEndFns /\ Enabled(call)
       /\ OptionalLengthPtr(call) = NULL) =>
        /\ pc = "returned"
        /\ ret = PSA_ERROR_INVALID_ARGUMENT
        /\ dispatched = <<>>

\* C25: in psa_aead_finish and psa_aead_verify the optional output
\* descriptor is left out of the dispatch exactly when its reference is
\* null; with a non-null reference it is dispatched, capacity 0 included.
C25_DroppedIffNull ==
    (pc # "idle" /\ Dispatched /\ call.fn \in AeadEndFns) =>
        (Elided <=> OptionalRef(call) = NULL)

\* the output descriptor through which the handle of the object of call c
\* is written: out_vec[0], the handle field for a streaming call and the
\* whole target object for psa_hash_clone
HandleDescriptor(c) ==
    IF c.fn = "psa_hash_clone"
    THEN Vec("target_operation", SIZEOF_psa_hash_operation_t)
    ELSE Vec("&(operation->handle)", SIZEOF_uint32_t)

\* C26: every change of an operation object's handle happens in a step
\* that dispatches a call made for that object, the call handed the channel
\* the object's handle descriptor as out_vec[0], and the channel wrote it;
\* a step without a dispatch (a locally rejected call, a return) leaves
\* every handle as it was.
C26_HandleWrittenByChannelOnly ==
    [][/\ \A o \in Objs :
             handle'[o] # handle[o] =>
                /\ pc = "in_call" /\ Len(dispatched') = 1
                /\ ndispatch' = ndispatch /\ ndispatch >= 1
                /\ dispatched' = dispatched
                /\ call' = call
                /\ call'.fn \in StreamingFns
                /\ o = WrittenObj(call')
                /\ dispatched'[1].out_num >= 1
                /\ dispatched'[1].out_vec[1] = HandleDescriptor(call')
                /\ post'[1].len = HandleDescriptor(call').len
                /\ handle'[o] = served'[o]
       /\ Len(dispatched') = 0 => handle' = handle
       /\ pc # "in_call" => handle' = handle]_vars

\* psa_hash_clone gave the target a handle through the target descriptor
C26_Witness ==
    /\ Returned /\ Dispatched
    /\ call.fn = "psa_hash_clone"
    /\ call.args.target_operation # NULL
    /\ call.args.target_operation # call.args.source_operation
    /\ post[1] = Vec("target_operation", SIZEOF_psa_hash_operation_t)
    /\ handle[call.args.target_operation] = 2
    /\ handle[call.args.source_operation] = 1

HashFns ==
    {"psa_hash_setup", "psa_hash_update", "psa_hash_finish", "psa_hash_verify",
     "psa_hash_abort", "psa_hash_clone", "psa_hash_compute", "psa_hash_compare"}

\* C27: for every setting of TFM_CRYPTO_HASH_MODULE_DISABLED the hash
\* functions agree on availability: a hash function returns
\* PSA_ERROR_NOT_SUPPORTED without a dispatch exactly when psa_hash_setup
\* does in the same build.
C27_HashFamilyAgrees ==
    (Returned /\ call.fn \in HashFns) =>
        ((ret = PSA_ERROR_NOT_SUPPORTED /\ dispatched = <<>>)
            <=> ModuleDisabled("HASH", "ifdef"))

\* the selector of each API function that dispatches
Selector ==
    [psa_open_key |-> "TFM_CRYPTO_OPEN_KEY_SID",
     psa_close_key |-> "TFM_CRYPTO_CLOSE_KEY_SID",
     psa_import_key |-> "TFM_CRYPTO_IMPORT_KEY_SID",
     psa_destroy_key |-> "TFM_CRYPTO_DESTROY_KEY_SID",
     psa_get_key_attributes |-> "TFM_CRYPTO_GET_KEY_ATTRIBUTES_SID",
     psa_reset_key_attributes |-> "TFM_CRYPTO_RESET_KEY_ATTRIBUTES_SID",
     psa_export_key |-> "TFM_CRYPTO_EXPORT_KEY_SID",
     psa_export_public_key |-> "TFM_CRYPTO_EXPORT_PUBLIC_KEY_SID",
     psa_purge_key |-> "TFM_CRYPTO_PURGE_KEY_SID",
     psa_copy_key |-> "TFM_CRYPTO_COPY_KEY_SID",
     psa_cipher_generate_iv |-> "TFM_CRYPTO_CIPHER_GENERATE_IV_SID",
     psa_cipher_set_iv |-> "TFM_CRYPTO_CIPHER_SET_IV_SID",
     psa_cipher_encrypt_setup |-> "TFM_CRYPTO_CIPHER_ENCRYPT_SETUP_SID",
     psa_cipher_decrypt_setup |-> "TFM_CRYPTO_CIPHER_DECRYPT_SETUP_SID",
     psa_cipher_update |-> "TFM_CRYPTO_CIPHER_UPDATE_SID",
     psa_cipher_abort |-> "TFM_CRYPTO_CIPHER_ABORT_SID",
     psa_cipher_finish |-> "TFM_CRYPTO_CIPHER_FINISH_SID",
     psa_hash_setup |-> "TFM_CRYPTO_HASH_SETUP_SID",
     psa_hash_update |-> "TFM_CRYPTO_HASH_UPDATE_SID",
     psa_hash_finish |-> "TFM_CRYPTO_HASH_FINISH_SID",
     psa_hash_verify |-> "TFM_CRYPTO_HASH_VERIFY_SID",
     psa_hash_abort |-> "TFM_CRYPTO_HASH_ABORT_SID",
     psa_hash_clone |-> "TFM_CRYPTO_HASH_CLONE_SID",
     psa_hash_compute |-> "TFM_CRYPTO_HASH_COMPUTE_SID",
     psa_hash_compare |-> "TFM_CRYPTO_HASH_COMPARE_SID",
     psa_mac_sign_setup |-> "TFM_CRYPTO_MAC_SIGN_SETUP_SID",
     psa_mac_verify_setup |-> "TFM_CRYPTO_MAC_VERIFY_SETUP_SID",
     psa_mac_update |-> "TFM_CRYPTO_MAC_UPDATE_SID",
     psa_mac_sign_finish |-> "TFM_CRYPTO_MAC_SIGN_FINISH_SID",
     psa_mac_verify_finish |-> "TFM_CRYPTO_MAC_VERIFY_FINISH_SID",
     psa_mac_abort |-> "TFM_CRYPTO_MAC_ABORT_SID",
     psa_aead_encrypt |-> "TFM_CRYPTO_AEAD_ENCRYPT_SID",
     psa_aead_decrypt |-> "TFM_CRYPTO_AEAD_DECRYPT_SID",
     psa_aead_encrypt_setup |-> "TFM_CRYPTO_AEAD_ENCRYPT_SETUP_SID",
     psa_aead_decrypt_setup |-> "TFM_CRYPTO_AEAD_DECRYPT_SETUP_SID",
     psa_aead_generate_nonce |-> "TFM_CRYPTO_AEAD_GENERATE_NONCE_SID",
     psa_aead_set_nonce |-> "TFM_CRYPTO_AEAD_SET_NONCE_SID",
     psa_aead_set_lengths |-> "TFM_CRYPTO_AEAD_SET_LENGTHS_SID",
     psa_aead_update_ad |-> "TFM_CRYPTO_AEAD_UPDATE_AD_SID",
     psa_aead_update |-> "TFM_CRYPTO_AEAD_UPDATE_SID",
     psa_aead_finish |-> "TFM_CRYPTO_AEAD_FINISH_SID",
     psa_aead_verify |-> "TFM_CRYPTO_AEAD_VERIFY_SID",
     psa_aead_abort |-> "TFM_CRYPTO_AEAD_ABORT_SID",
     psa_sign_message |-> "TFM_CRYPTO_SIGN_MESSAGE_SID",
     psa_verify_message |-> "TFM_CRYPTO_VERIFY_MESSAGE_SID",
     psa_sign_hash |-> "TFM_CRYPTO_SIGN_HASH_SID",
     psa_verify_hash |-> "TFM_CRYPTO_VERIFY_HASH_SID",
     psa_asymmetric_encrypt |-> "TFM_CRYPTO_ASYMMETRIC_ENCRYPT_SID",
     psa_asymmetric_decrypt |-> "TFM_CRYPTO_ASYMMETRIC_DECRYPT_SID",
     psa_key_derivation_get_capacity |-> "TFM_CRYPTO_KEY_DERIVATION_GET_CAPACITY_SID",
     psa_key_derivation_output_bytes |-> "TFM_CRYPTO_KEY_DERIVATION_OUTPUT_BYTES_SID",
     psa_key_derivation_input_key |-> "TFM_CRYPTO_KEY_DERIVATION_INPUT_KEY_SID",
     psa_key_derivation_abort |-> "TFM_CRYPTO_KEY_DERIVATION_ABORT_SID",
     psa_key_derivation_key_agreement |-> "TFM_CRYPTO_KEY_DERIVATION_KEY_AGREEMENT_SID",
     psa_generate_random |-> "TFM_CRYPTO_GENERATE_RANDOM_SID",
     psa_generate_key |-> "TFM_CRYPTO_GENERATE_KEY_SID",
     psa_mac_compute |-> "TFM_CRYPTO_MAC_COMPUTE_SID",
     psa_mac_verify |-> "TFM_CRYPTO_MAC_VERIFY_SID",
     psa_cipher_encrypt |-> "TFM_CRYPTO_CIPHER_ENCRYPT_SID",
     psa_cipher_decrypt |-> "TFM_CRYPTO_CIPHER_DECRYPT_SID",
     psa_raw_key_agreement |-> "TFM_CRYPTO_RAW_KEY_AGREEMENT_SID",
     psa_key_derivation_setup |-> "TFM_CRYPTO_KEY_DERIVATION_SETUP_SID",
     psa_key_derivation_set_capacity |-> "TFM_CRYPTO_KEY_DERIVATION_SET_CAPACITY_SID",
     psa_key_derivation_input_bytes |-> "TFM_CRYPTO_KEY_DERIVATION_INPUT_BYTES_SID",
     psa_key_derivation_output_key |-> "TFM_CRYPTO_KEY_DERIVATION_OUTPUT_KEY_SID"]

\* C28: in every dispatch input descriptor 0 is the request header, its
\* base the header of the call and its length
\* sizeof(struct tfm_crypto_pack_iovec), and the header's srv_id is the
\* selector of the function called; psa_aead_encrypt and psa_aead_decrypt,
\* which fill descriptor 0 after their local checks, included.
C28_HeaderFirst ==
    Dispatched =>
        /\ dispatched[1].in_num >= 1
        /\ dispatched[1].in_vec[1] = Vec("&iov", SIZEOF_tfm_crypto_pack_iovec)
        /\ call.in_vec[1] = dispatched[1].in_vec[1]
        /\ call.fn \in DOMAIN Selector
        /\ call.iov.srv_id = Selector[call.fn]

\* psa_aead_encrypt went out with the header in descriptor 0
C28_Witness ==
    /\ Returned /\ Dispatched
    /\ call.fn = "psa_aead_encrypt"
    /\ call.args.nonce # NULL
    /\ call.args.nonce_length = TFM_CRYPTO_MAX_NONCE_LENGTH
    /\ dispatched[1].in_vec[1] = Vec("&iov", SIZEOF_tfm_crypto_pack_iovec)
    /\ call.iov.srv_id = "TFM_CRYPTO_AEAD_ENCRYPT_SID"

\* C29: whether a call is answered locally, and with which status, is a
\* function of the call's arguments (the handle inside the target object of
\* psa_hash_clone included) and the build: in every reachable state,
\* whatever was dispatched before and whatever the channel answered, the
\* call is dispatched exactly when that function says PASS and otherwise
\* returns the status that function gives, without a dispatch.
C29_LocalErrorsDeterministic ==
    [][(pc = "idle" /\ pc' # "idle")
        => LET v == LocalVerdict(call')
           IN  IF v = PASS
               THEN Len(dispatched') = 1 /\ ndispatch' = ndispatch + 1
               ELSE /\ dispatched' = <<>>
                    /\ ndispatch' = ndispatch
                    /\ pc' = "returned"
                    /\ ret' = IF call'.void THEN VOID ELSE v]_vars

\* the nonce check rejects after two requests were served, as it does before
\* the first
C29_Witness ==
    /\ Returned
    /\ call.fn = "psa_aead_decrypt"
    /\ Enabled(call)
    /\ call.args.nonce_length > TFM_CRYPTO_MAX_NONCE_LENGTH
    /\ call.args.additional_data = NULL
    /\ ret = PSA_ERROR_INVALID_ARGUMENT
    /\ dispatched = <<>>
    /\ ndispatch = MaxDispatch
    /\ handle["opA"] # 0

\* C30, as stated: every API call that was entered returns, unless the
\* channel primitive does not return: at no time is more than one request in flight,
\* a call makes at most one dispatch and none after the channel has
\* returned, and the loop that copies the nonce makes at most
\* TFM_CRYPTO_MAX_NONCE_LENGTH iterations.
C30_CallReturns ==
    /\ [](/\ run.inflight <= 1
          /\ run.calls <= 1
          /\ run.iters <= TFM_CRYPTO_MAX_NONCE_LENGTH
          /\ run.pc \in {"done", "trapped"} => run.inflight = 0)
    /\ (run.pc = "entry") ~> (run.pc \in {"done", "no_return"})

\* C30, the part that holds: the bounds on requests, dispatches and loop
\* iterations, the header built byte by byte is the header dispatched, and
\* every call that was entered returns or traps, unless the channel
\* primitive does not return.
C30_ReturnsOrTraps ==
    /\ [](/\ run.inflight <= 1
          /\ run.calls <= 1
          /\ run.iters <= TFM_CRYPTO_MAX_NONCE_LENGTH
          /\ run.pc \in {"done", "trapped"} => run.inflight = 0
          /\ run.pc \in {"call", "in_flight"} => run.iov = call.iov)
    /\ (run.pc = "entry") ~> (run.pc \in {"done", "trapped", "no_return"})

\* psa_aead_finish with a null ciphertext_length has dispatched once, the
\* channel has returned, and the call is stuck in its store
C30_TrapWitness ==
    /\ run.pc = "trapped"
    /\ pc = "fault"
    /\ call.fn = "psa_aead_finish"
    /\ call.args.ciphertext_length = NULL
    /\ run.calls = 1
    /\ run.inflight = 0

\* psa_aead_encrypt returned after copying a nonce of the largest length
\* allowed and one dispatch
C30_Witness ==
    /\ run.pc = "done"
    /\ call.fn = "psa_aead_encrypt"
    /\ run.iters = TFM_CRYPTO_MAX_NONCE_LENGTH
    /\ run.calls = 1
    /\ run.inflight = 0
    /\ run.iov.nonce_length = TFM_CRYPTO_MAX_NONCE_LENGTH
    /\ ret = PSA_SUCCESS

\* C13: every API call that passes its local checks makes exactly one
\* dispatch, except psa_crypto_init, which has no check, makes none and
\* returns PSA_SUCCESS; no call dispatches twice.  When the channel returns,
\* a function with a status return value returns exactly the status the
\* channel returned;
\* psa_reset_key_attributes, which has no return value, returns nothing; and
\* psa_aead_finish/psa_aead_verify given a null length pointer store through
\* it, after which the call may trap instead of returning.
\* An invalid call, for which psa_call does not return, is dispatched once
\* and returns nothing.
C13_StatusPassedThrough ==
    [][/\ (pc = "idle" /\ pc' # "idle")
          => IF call'.fn = "psa_crypto_init"
             THEN /\ pc' = "returned"
                  /\ dispatched' = <<>>
                  /\ ndispatch' = ndispatch
                  /\ ret' = PSA_SUCCESS
             ELSE LocalVerdict(call') = PASS =>
                    /\ pc' = "in_call"
                    /\ ndispatch' = ndispatch + 1
                    /\ Len(dispatched') = 1
       /\ pc # "idle" => ndispatch' = ndispatch
       /\ (pc = "in_call" /\ pc' = "no_return")
          => /\ InvalidCall(call)
             /\ UNCHANGED <<call, dispatched, ret, status, handle, lenout>>
       /\ (pc = "in_call" /\ pc' \in {"returned", "fault"})
          => /\ call' = call
             /\ dispatched' = dispatched
             /\ status' \in ChannelStatus
             /\ IF pc' = "fault"
                THEN /\ call.fn \in AeadEndFns
                     /\ OptionalLengthPtr(call) = NULL
                ELSE ret' = IF call.fn = "psa_reset_key_attributes"
                            THEN VOID ELSE status']_vars
====
